---- MODULE Spec2Model ----
(***************************************************************************)
(* Verification model of the demo-identity choreography of                 *)
(* 2KSTech/oidc-sogo-demo: the expiration reconciler                       *)
(* (backend/services/demo-session-cleanup-daemon.js), the webmail store    *)
(* client (backend/services/sogo/sogo-user-service.js) and the mail        *)
(* provider services (stalwart-service.js, mailcow-service.js).            *)
(*                                                                         *)
(* Node.js runs one callback at a time: every action below is the code     *)
(* that runs between two awaits of one async function (from the arrival of *)
(* a response up to the next outbound call).  A response's outcome is      *)
(* chosen by the environment (\E) when the response arrives.               *)
(***************************************************************************)
EXTENDS Integers, Sequences, FiniteSets, TLC

----------------------------------------------------------------------------
(* Bounds of the model *)

MaxTicks == 1      \* tick() invocations by the interval timer or a direct call
MaxPolicy == 1     \* largest DEMO_MAX_SESSION_DURATION_MIN tried (minutes)
ClockNow == 3      \* the wall clock (minutes) at which identities are judged
MaxFaults == 1     \* backend calls that fail (error answer, timeout, exception) in one run
MaxCalls == 3      \* deleteMailbox() invocations in one run
MaxCreates == 1    \* mailboxes (re)created in one run
MaxTokenLen == 2   \* longest refresh token string tried (characters)
MaxTokenOps == 4   \* TokenService calls in one run
MaxIssued == 2     \* access tokens the IdP issues in one run
MaxRuns == 2       \* onboarding calls (verifyAndEnableMailbox, pre-deploy) in one run

Users == {"u1", "u2"}
UserOrder == <<"u1", "u2">>     \* the order in which the IdP lists identities
Callers == {"runner"}         \* who calls start(): the standalone runner, once
Workers == {"tick", "pass"}     \* tick() and expireAllSessions() both call deleteUser
Slots == {"r1", "r2"}           \* requests to mailService.deleteMailbox that can be in flight
TokenKeys == {"kcA"}             \* the keycloak_id under which tokens are kept
NoKey == ""                     \* a missing identity key
GetSlots == {"g1", "g2"}        \* requests calling getValidAccessToken that can be in flight
TokenLifetime == 90             \* seconds an issued access token lives
ClockTimes == <<0, 29, 30, 31>> \* the times (seconds) at which calls are made: a token issued
                                \* at 0 has 90, 61, 60 and 59 seconds left

----------------------------------------------------------------------------
(* Identities and the three backends *)

\* The two identifiers of an identity: kcUser.username and kcUser.email
\* (email falls back to username@domain, always different from the username).
Username(u) == <<"username", u>>
Email(u) == <<"email", u>>

\* An identity as created by the registration flow: enabled, with a creation
\* time, a SOGo row keyed by its email and a mailbox.
Baseline == [enabled |-> TRUE, created |-> 1, sogo |-> TRUE, mailbox |-> TRUE]

\* The identities tried: the baseline and every single deviation from it
\* (disabled, created one minute ago, no createdTimestamp, never used the
\* webmail client, no mailbox).
Profiles ==
    { Baseline,
      [Baseline EXCEPT !.enabled = FALSE],
      [Baseline EXCEPT !.created = ClockNow - 1],
      [Baseline EXCEPT !.created = 0],
      [Baseline EXCEPT !.sogo = FALSE],
      [Baseline EXCEPT !.mailbox = FALSE] }

VARIABLES
    \* ---- the environment
    attrs,          \* IdP: each identity's enabled flag and createdTimestamp
    kcUsers,        \* IdP: the identities that exist
    sogoRows,       \* webmail store: the c_uid keys of sogo_users
    mailboxes,      \* mail backend: the identities that have a principal
    provider,       \* mailService.getProvider()
    \* ---- DemoSessionCleanupDaemon fields
    maxSessionDurationMin,
    running,
    timer,          \* this.timer: "null", otherwise the interval's id (its creator)
    isTicking,
    stats,
    lastRun,        \* stats.lastRun: the number of the tick that set it, 0 is null
    \* ---- the event loop
    liveTimers,     \* ids of the intervals setInterval made and clearInterval has not cleared
    startPc,        \* each start() call: "idle", "check" (awaiting getAllUsers), "true", "false"
    connOk,         \* each start() call: the outcome of its connectivity check
    triggers,       \* tick() invocations by timer or direct call so far
    tick,           \* the tick() in flight: its position and locals
    pass,           \* the signal handler and its expireAllSessions(): position and locals
    del,            \* per caller, the deleteUser() in flight: position and locals
    faults,         \* backend calls that have failed so far
    \* ---- history, for stating the claims
    delStarted,     \* <<caller, identity>>: deleteUser was called
    probed,         \* <<caller, identity, r>>: getUserById threw (r = "fail") or answered
                    \* while the identity's SOGo row existed ("row") or not ("norow")
    returned,       \* per caller, what its last deleteUser returned
    inflight,       \* tick() bodies past the isTicking guard and not yet finished
    \* ---- mailService.deleteMailbox() on its own
    mConfigured,    \* client.isConfigured(): base URL and credentials are set
    mCall,          \* per request, the deleteMailbox() in flight: position, argument, whether it
                    \* follows a deletion with no creation since, whether the backend answered it
    mRes,           \* per request, what its last deleteMailbox() returned, and what the backend
                    \* had answered to its lookup and to its delete call
    mLast,          \* per mailbox: its latest event is a deleteMailbox() that deleted it
    mCalls,         \* deleteMailbox() invocations so far
    mCreates,       \* mailboxes created so far
    \* ---- TokenService._encryptRefreshToken / _decryptRefreshToken on their own
    cKey,           \* this.encryptionKey
    cPc,            \* "start", "encrypted", "altered", "decrypted", "rejected"
    cToken,         \* the refresh token given to _encryptRefreshToken
    cGenuine,       \* what _encryptRefreshToken returned
    cStored,        \* the value given to _decryptRefreshToken
    cOut,           \* what _decryptRefreshToken returned
    \* ---- TokenService: tokens per identity key
    tNow,           \* the clock: Math.floor(Date.now() / 1000) is ClockTimes[tNow]
    tConfigured,    \* the four KEYCLOAK_* settings are present
    tSess,          \* session.tokenService: per key the entry object (oid 0: no entry)
    tStore,         \* this.refreshTokenStore: per key the encrypted refresh token, or null
    tGet,           \* per request, the getValidAccessToken() in flight: position and locals
    tLast,          \* the latest call that returned: its arguments and result
    tOps,           \* calls made so far
    tIssued,        \* access tokens the IdP (login or refresh grant) has issued so far
    tRequests,      \* refresh grants sent to the IdP so far
    tInv,           \* per key: invalidateTokens has removed it and no initializeUserTokens
                    \* has stored it since
    \* ---- onboarding a mailbox: verifyAndEnableMailbox, preDeployOidcUserWithAdminToken
    oRun,           \* the call in flight: position, arguments, locals, calls made so far
    oRes,           \* what the latest call returned, and what it had done by then
    oRuns           \* calls made so far

envVars == <<attrs, kcUsers, sogoRows, mailboxes, provider>>
daemonVars == <<maxSessionDurationMin, running, timer, isTicking, stats, lastRun>>
loopVars == <<liveTimers, startPc, connOk, triggers, tick, pass, del, faults>>
histVars == <<delStarted, probed, returned, inflight>>
mailVars == <<mConfigured, mCall, mRes, mLast, mCalls, mCreates>>
cryptVars == <<cKey, cPc, cToken, cGenuine, cStored, cOut>>
tokenVars == <<tNow, tConfigured, tSess, tStore, tGet, tLast, tOps, tIssued, tRequests, tInv>>
onboardVars == <<oRun, oRes, oRuns>>
laterVars == <<cryptVars, tokenVars, onboardVars>>
vars == <<envVars, daemonVars, loopVars, histVars, mailVars, laterVars>>


----------------------------------------------------------------------------
(* Pure parts of the code *)

\* Variant: a policy of 0 counts as set.
shouldRunNonNegative(max) == max >= 0

\* shouldRun(): only a positive policy enables the reconciler.
shouldRun(max) == max > 0

\* ageMinutes = (now - createdDate) / 60000
ageMinutes(u) == ClockNow - attrs[u].created

\* The methods the SogoUserService class defines.
SogoUserServiceMethods ==
    {"initialize", "generatePasswordHash", "ensureUserInSogo", "userExistsInSogo",
     "getAllSogoUsers", "deleteUser", "close"}

\* sogoUserService.userExists(key), as shouldExpireUser calls it: calling a
\* method the object does not have throws a TypeError.
sogoUserExists(key) ==
    IF "userExists" \in SogoUserServiceMethods
    THEN (IF key \in sogoRows THEN "true" ELSE "false")
    ELSE "TypeError"

\* Variant: force defaults to true.
shouldExpireUserForced(u, force) == TRUE

\* Variant: the force argument is ignored.
shouldExpireUserNoForce(u, force) ==
    IF attrs[u].created = 0 THEN FALSE
    ELSE IF sogoUserExists(Email(u)) = "TypeError" THEN FALSE
    ELSE sogoUserExists(Email(u)) = "true" /\ ageMinutes(u) > maxSessionDurationMin

\* Variant: a failed webmail lookup leaves the decision to the age alone.
shouldExpireUserCatchTrue(u, force) ==
    IF force THEN TRUE
    ELSE IF attrs[u].created = 0 THEN FALSE
    ELSE IF sogoUserExists(Email(u)) = "TypeError" THEN ageMinutes(u) > maxSessionDurationMin
    ELSE sogoUserExists(Email(u)) = "true" /\ ageMinutes(u) > maxSessionDurationMin

\* shouldExpireUser(kcUser, force): the lookup's exception is caught and
\* answered with false.
shouldExpireUser(u, force) ==
    IF force THEN TRUE
    ELSE IF attrs[u].created = 0 THEN FALSE
    ELSE IF sogoUserExists(Email(u)) = "TypeError" THEN FALSE
    ELSE sogoUserExists(Email(u)) = "true" /\ ageMinutes(u) > maxSessionDurationMin

\* Variant: a principal that is not found is a failed lookup like any other.
StalwartDeleteMailboxStrict(configured, lookup, delr) ==
    IF ~configured THEN [success |-> FALSE, kind |-> "error", delIssued |-> FALSE]
    ELSE IF lookup # "found"
    THEN [success |-> FALSE, kind |-> "error", delIssued |-> FALSE]
    ELSE IF delr = "2xx"
         THEN [success |-> TRUE, kind |-> "deleted", delIssued |-> TRUE]
         ELSE [success |-> FALSE, kind |-> "error", delIssued |-> TRUE]

\* StalwartService.deleteMailbox(email) as a function of the mail backend's
\* answers to the lookup ("found", "404", "error") and to the delete
\* ("2xx", "404", "error").
StalwartDeleteMailbox(configured, lookup, delr) ==
    IF ~configured THEN [success |-> FALSE, kind |-> "error", delIssued |-> FALSE]
    ELSE IF lookup # "found"
    THEN IF lookup = "404"
         THEN [success |-> TRUE, kind |-> "notfound", delIssued |-> FALSE]
         ELSE [success |-> FALSE, kind |-> "error", delIssued |-> FALSE]
    ELSE IF delr = "2xx"
         THEN [success |-> TRUE, kind |-> "deleted", delIssued |-> TRUE]
         ELSE [success |-> FALSE, kind |-> "error", delIssued |-> TRUE]

\* MailcowClient.getMailbox(email) as a function of the backend's answers: to
\* the direct fetch ("found", "404", "error"), and after a 404 to the listing
\* of the domain ("ok", "error") and whether the listing holds the address.
MailcowGetMailbox(direct, list, hit) ==
    IF direct # "404" THEN direct
    ELSE IF list # "ok" THEN "error"
    ELSE IF ~hit THEN "404"
    ELSE "found"

\* MailcowService.deleteMailbox(email) as a function of getMailbox's result
\* and of the answer to POST /v1/delete/mailbox: a lookup without success,
\* whatever its status, is answered with the "may already be deleted" success.
MailcowDeleteMailbox(configured, lookup, delr) ==
    IF ~configured THEN [success |-> FALSE, kind |-> "error", delIssued |-> FALSE]
    ELSE IF lookup # "found"
    THEN [success |-> TRUE, kind |-> "notfound", delIssued |-> FALSE]
    ELSE IF delr = "2xx"
         THEN [success |-> TRUE, kind |-> "deleted", delIssued |-> TRUE]
         ELSE [success |-> FALSE, kind |-> "error", delIssued |-> TRUE]

\* Variant: every call goes to the stalwart implementation.
MailServiceDeleteMailboxStalwartOnly(p, configured, lookup, delr) ==
    StalwartDeleteMailbox(configured, lookup, delr)

\* mailService.deleteMailbox(email): the call goes to the selected provider.
MailServiceDeleteMailbox(p, configured, lookup, delr) ==
    IF p = "stalwart" THEN StalwartDeleteMailbox(configured, lookup, delr)
    ELSE MailcowDeleteMailbox(configured, lookup, delr)

\* What DELETE /api/test/oidc-stalwart/stalwart/delete-mailbox/:email can answer
\* for identity u: the route runs mailService.deleteMailbox against the backend.
ApiDeleteAnswers(u) ==
    { [res |-> StalwartDeleteMailbox(TRUE, l, d), removes |-> (l = "found" /\ d = "2xx"),
       fault |-> (l = "error" \/ (l = "found" /\ d = "error"))] :
        l \in (IF u \in mailboxes THEN {"found"} ELSE {"404"}) \cup {"error"},
        d \in {"2xx", "error"} }

\* SogoUserService.deleteUser(cUid): the DELETE's row count, or a caught error.
SogoDeleteAnswers(key) ==
    (IF key \in sogoRows
     THEN {[success |-> TRUE, deleted |-> TRUE]}
     ELSE {[success |-> TRUE, deleted |-> FALSE]})
    \cup {[success |-> FALSE, deleted |-> FALSE]}

\* The names bound in deleteUser's scope.
DeleteUserScope ==
    {"kcUser", "username", "email", "results", "apiResult", "emailResult",
     "sogoResult", "retryResult", "retryError", "error", "allSuccess"}

\* Step 3 of deleteUser after sogoUserService.deleteUser(email) answered
\* sogoResult: the test reads SOGoResult, and reading a name that is not bound
\* throws a ReferenceError, which the surrounding catch turns into a failure.
\* retry: the call is to be repeated with the username.
webmailAfterPrimary(sogoResult) ==
    IF "SOGoResult" \notin DeleteUserScope
    THEN [webmail |-> "fail", retry |-> FALSE]
    ELSE IF sogoResult.success
    THEN [webmail |-> "ok", retry |-> FALSE]
    ELSE [webmail |-> "fail", retry |-> TRUE]

\* allSuccess = keycloak.success && (stalwart === null || stalwart.success)
\*              && (webmail.success !== false)
allSuccess(st, kc, wm) ==
    kc = "ok" /\ st \in {"null", "deleted", "notfound"} /\ wm # "fail"

\* Variant: the mail backend is called whatever the provider.
DeleteUserStepsAllThree(p) == <<"stalwart", "keycloak", "webmail">>

\* Variant: the IdP is called before the mail backend.
DeleteUserStepsKeycloakFirst(p) ==
    IF p = "stalwart" THEN <<"keycloak", "stalwart", "webmail">>
    ELSE <<"keycloak", "webmail">>

\* The backends deleteUser calls, in the order of its statements; the mail
\* backend is called only when the provider is stalwart.
DeleteUserSteps(p) ==
    IF p = "stalwart" THEN <<"stalwart", "keycloak", "webmail">>
    ELSE <<"keycloak", "webmail">>

\* Variant: the enabled flag is not looked at.
NextEnabledAny(list, i) == i

\* Index of the first identity at or after position i that is not disabled
\* (kcUser.enabled === false -> continue), Len(list)+1 when there is none.
RECURSIVE NextEnabled(_, _)
NextEnabled(list, i) ==
    IF i > Len(list) THEN i
    ELSE IF attrs[list[i]].enabled THEN i
    ELSE NextEnabled(list, i + 1)

\* Whether the webmail store holds a row for the identity's email right now.
RowSeen(u) == IF Email(u) \in sogoRows THEN "row" ELSE "norow"

\* keycloakAdmin.getAllUsers(): the identities that exist, in listing order.
AllUsers == SelectSeq(UserOrder, LAMBDA u : u \in kcUsers)


----------------------------------------------------------------------------
(* Initial state: the constructor has run, nothing was started *)

IdleTick == [pc |-> "idle", list |-> <<>>, idx |-> 0, expired |-> 0, deleted |-> 0, errors |-> 0]
NoPass == [pc |-> "none", list |-> <<>>, idx |-> 0, expired |-> 0, errors |-> 0]
NoDelete == [pc |-> "none", user |-> "-", st |-> "null", kc |-> "null", order |-> <<>>, done |-> 0]
NoReturn == [valid |-> FALSE, user |-> "-", st |-> "null", kc |-> "null", wm |-> "null",
             success |-> FALSE, rows |-> "none", wmCalls |-> <<>>]
\* A value that may be null.
Null == [null |-> TRUE, val |-> <<>>]
Val(x) == [null |-> FALSE, val |-> x]

IdleCall == [pc |-> "idle", key |-> "-", after |-> FALSE, clean |-> TRUE,
             lookups |-> <<>>, deletes |-> <<>>, name |-> Null]
NoResult == [valid |-> FALSE, key |-> "-", success |-> FALSE, kind |-> "error",
             delIssued |-> FALSE, after |-> FALSE, clean |-> TRUE,
             lookup |-> "none", delr |-> "none",
             lookups |-> <<>>, deletes |-> <<>>, name |-> Null]

\* No token is being encrypted on its own.
CryptIdle ==
    /\ cKey = <<0>>
    /\ cPc = "start"
    /\ cToken = <<>>
    /\ cGenuine = Null
    /\ cStored = Null
    /\ cOut = Null

\* A missing token (undefined / null), a missing session entry, no call.
NoTok == [n |-> 0, exp |-> 0]
NoEntry == [oid |-> 0, access |-> NoTok, idt |-> NoTok]
IdleGet == [pc |-> "idle", key |-> NoKey, oid |-> 0, rt |-> <<>>]
NoCall == [op |-> "none", key |-> NoKey, hasSession |-> FALSE, rt |-> <<>>, hasId |-> FALSE,
           ret |-> "none", tok |-> NoTok, grant |-> "none", issued |-> <<>>]

\* No TokenService call is made.
TokenIdle ==
    /\ tNow = 1
    /\ tConfigured = TRUE
    /\ tSess = [k \in TokenKeys |-> NoEntry]
    /\ tStore = [k \in TokenKeys |-> Null]
    /\ tGet = [g \in GetSlots |-> IdleGet]
    /\ tLast = NoCall
    /\ tOps = 0
    /\ tIssued = 0
    /\ tRequests = 0
    /\ tInv = [k \in TokenKeys |-> FALSE]

\* No onboarding call in flight, none returned.
NoRun == [op |-> "none", pc |-> "idle", user |-> "-", name |-> "none", absent |-> FALSE,
          hs |-> "none", auth |-> FALSE, err |-> {}, waits |-> 0, polls |-> 0, lookups |-> 0,
          creates |-> 0, lookup |-> "none"]
NoOutcome == [valid |-> FALSE, success |-> FALSE, discovered |-> FALSE, kind |-> "none",
              run |-> NoRun]

OnboardIdle ==
    /\ oRun = NoRun
    /\ oRes = NoOutcome
    /\ oRuns = 0

LaterIdle == CryptIdle /\ TokenIdle /\ OnboardIdle

\* No deleteMailbox() request is made on its own.
MailIdle ==
    /\ mConfigured = TRUE
    /\ mCall = [c \in Slots |-> IdleCall]
    /\ mRes = [c \in Slots |-> NoResult]
    /\ mLast = [u \in Users |-> FALSE]
    /\ mCalls = 0
    /\ mCreates = 0

Init ==
    /\ \E prof \in [Users -> Profiles] :
         /\ attrs = [u \in Users |-> [enabled |-> prof[u].enabled, created |-> prof[u].created]]
         /\ sogoRows = {Email(u) : u \in {x \in Users : prof[x].sogo}}
         /\ mailboxes = {u \in Users : prof[u].mailbox}
    /\ kcUsers = Users
    /\ provider \in {"stalwart", "mailcow"}
    /\ maxSessionDurationMin \in 0..MaxPolicy
    /\ running = FALSE
    /\ timer = "null"
    /\ isTicking = FALSE
    /\ stats = [totalScanned |-> 0, totalExpired |-> 0, totalDeleted |-> 0, totalErrors |-> 0]
    /\ lastRun = 0
    /\ liveTimers = {}
    /\ startPc = [s \in Callers |-> "idle"]
    /\ connOk = [s \in Callers |-> "none"]
    /\ triggers = 0
    /\ tick = IdleTick
    /\ pass = NoPass
    /\ del = [w \in Workers |-> NoDelete]
    /\ delStarted = {}
    /\ faults = 0
    /\ probed = {}
    /\ returned = [w \in Workers |-> NoReturn]
    /\ inflight = 0
    /\ MailIdle
    /\ LaterIdle

\* process.exit(0) has not run: the event loop still delivers callbacks.
Alive == pass.pc # "exited"

----------------------------------------------------------------------------
(* deleteUser(kcUser): the part up to its first await, and its three steps *)

\* deleteUser's statements up to the first outbound call: the first backend of
\* DeleteUserSteps is called.
DeleteUserBegin(w, u) ==
    LET first == DeleteUserSteps(provider)[1] IN
    /\ del' = [del EXCEPT ![w] = [NoDelete EXCEPT !.pc = first, !.user = u, !.order = <<first>>]]
    /\ delStarted' = delStarted \cup {<<w, u>>}

\* The backend called after `step`.
StepAfter(step) ==
    LET steps == DeleteUserSteps(provider)
        i == CHOOSE k \in 1..Len(steps) : steps[k] = step
    IN  steps[i + 1]

\* Variant: the error leaves the loop, no later identity is looked at.
loopAfterCatchBreak(list, idx) == Len(list)

\* The catch inside the loop body of tick(): it ends the iteration of the
\* identity at position idx only, and the for loop goes on from there.
loopAfterCatch(list, idx) == idx

\* Variant: the end of the scan leaves isTicking as it is.
TickResumeGuardKept(list, idx, expired, deleted, errors) ==
    LET j == NextEnabled(list, idx + 1) IN
    IF j <= Len(list)
    THEN /\ tick' = [pc |-> "detail", list |-> list, idx |-> j, expired |-> expired,
                     deleted |-> deleted, errors |-> errors]
         /\ UNCHANGED <<stats, isTicking, inflight>>
    ELSE /\ tick' = IdleTick
         /\ stats' = [totalScanned |-> stats.totalScanned + Len(list),
                      totalExpired |-> stats.totalExpired + expired,
                      totalDeleted |-> stats.totalDeleted + deleted,
                      totalErrors |-> stats.totalErrors + errors]
         /\ UNCHANGED isTicking
         /\ inflight' = inflight - 1

\* Variant: only the enabled identities of the list count as scanned.
TickResumeEnabledOnly(list, idx, expired, deleted, errors) ==
    LET j == NextEnabled(list, idx + 1) IN
    IF j <= Len(list)
    THEN /\ tick' = [pc |-> "detail", list |-> list, idx |-> j, expired |-> expired,
                     deleted |-> deleted, errors |-> errors]
         /\ UNCHANGED <<stats, isTicking, inflight>>
    ELSE /\ tick' = IdleTick
         /\ stats' = [totalScanned |-> stats.totalScanned
                                       + Len(SelectSeq(list, LAMBDA u : attrs[u].enabled)),
                      totalExpired |-> stats.totalExpired + expired,
                      totalDeleted |-> stats.totalDeleted + deleted,
                      totalErrors |-> stats.totalErrors + errors]
         /\ isTicking' = FALSE
         /\ inflight' = inflight - 1

\* The loop of tick() after the identity at tick.idx is dealt with: the next
\* enabled identity's detail is requested, or the counters are added to the
\* statistics and the finally block clears isTicking.
TickResume(list, idx, expired, deleted, errors) ==
    LET j == NextEnabled(list, idx + 1) IN
    IF j <= Len(list)
    THEN /\ tick' = [pc |-> "detail", list |-> list, idx |-> j, expired |-> expired,
                     deleted |-> deleted, errors |-> errors]
         /\ UNCHANGED <<stats, isTicking, inflight>>
    ELSE /\ tick' = IdleTick
         /\ stats' = [totalScanned |-> stats.totalScanned + Len(list),
                      totalExpired |-> stats.totalExpired + expired,
                      totalDeleted |-> stats.totalDeleted + deleted,
                      totalErrors |-> stats.totalErrors + errors]
         /\ isTicking' = FALSE
         /\ inflight' = inflight - 1

\* The loop of expireAllSessions() after the identity at pass.idx is dealt with;
\* when the list is exhausted the handler goes on to process.exit(0).
PassResume(list, idx, expired, errors) ==
    LET j == NextEnabled(list, idx + 1) IN
    pass' = [pc |-> IF j <= Len(list) THEN "detail" ELSE "exited",
             list |-> list, idx |-> j, expired |-> expired, errors |-> errors]

\* deleteUser returned `success` to its caller, which counts it and goes on.
DeleteUserReturn(w, success) ==
    IF w = "tick"
    THEN /\ TickResume(tick.list, tick.idx, tick.expired,
                       IF success THEN tick.deleted + 1 ELSE tick.deleted,
                       IF success THEN tick.errors ELSE tick.errors + 1)
         /\ UNCHANGED pass
    ELSE /\ PassResume(pass.list, pass.idx,
                       IF success THEN pass.expired + 1 ELSE pass.expired,
                       IF success THEN pass.errors ELSE pass.errors + 1)
         /\ UNCHANGED <<tick, stats, isTicking, inflight>>

\* The next backend of deleteUser is called.
DeleteUserNext(w, st, kc) ==
    LET nxt == StepAfter(IF del[w].pc = "stalwartFallback" THEN "stalwart" ELSE del[w].pc) IN
    del' = [del EXCEPT ![w].pc = nxt, ![w].st = st, ![w].kc = kc,
                       ![w].order = Append(@, nxt), ![w].done = @ + 1]

\* A backend call fails: an error answer, a timeout or an exception.
Fault == faults < MaxFaults /\ faults' = faults + 1
NoFault == UNCHANGED faults

\* Step 1: deleteStalwartMailboxViaAPI(username) answered or threw.  A thrown
\* error fails the step; an answer without success is followed by the same
\* call with the email.
StalwartDone(w) ==
    /\ UNCHANGED <<mailVars, laterVars>>
    /\ Alive
    /\ del[w].pc = "stalwart"
    /\ \/ \* request error or timeout: catch
          /\ Fault
          /\ DeleteUserNext(w, "fail", "null")
          /\ UNCHANGED mailboxes
       \/ \E a \in ApiDeleteAnswers(del[w].user) :
            /\ IF a.fault THEN Fault ELSE NoFault
            /\ mailboxes' = IF a.removes THEN mailboxes \ {del[w].user} ELSE mailboxes
            /\ IF a.res.success
               THEN DeleteUserNext(w, a.res.kind, "null")
               ELSE del' = [del EXCEPT ![w].pc = "stalwartFallback",
                                       ![w].order = Append(@, "stalwart"),
                                       ![w].done = @ + 1]
    /\ UNCHANGED <<attrs, kcUsers, sogoRows, provider, daemonVars, liveTimers, startPc,
                   connOk, triggers, tick, pass, histVars>>

\* Step 1, fallback: deleteStalwartMailboxViaAPI(email) answered or threw.
StalwartFallbackDone(w) ==
    /\ UNCHANGED <<mailVars, laterVars>>
    /\ Alive
    /\ del[w].pc = "stalwartFallback"
    /\ \/ /\ Fault
          /\ DeleteUserNext(w, "fail", "null")
          /\ UNCHANGED mailboxes
       \/ \E a \in ApiDeleteAnswers(del[w].user) :
            /\ IF a.fault THEN Fault ELSE NoFault
            /\ mailboxes' = IF a.removes THEN mailboxes \ {del[w].user} ELSE mailboxes
            /\ DeleteUserNext(w, IF a.res.success THEN a.res.kind ELSE "fail", "null")
    /\ UNCHANGED <<attrs, kcUsers, sogoRows, provider, daemonVars, liveTimers, startPc,
                   connOk, triggers, tick, pass, histVars>>

\* Step 2: keycloakAdmin.deleteUser(id) resolved (the identity is gone) or
\* threw (it throws at least when the identity no longer exists).
KeycloakDone(w) ==
    /\ UNCHANGED <<mailVars, laterVars>>
    /\ Alive
    /\ del[w].pc = "keycloak"
    /\ \/ /\ del[w].user \in kcUsers
          /\ NoFault
          /\ kcUsers' = kcUsers \ {del[w].user}
          /\ DeleteUserNext(w, del[w].st, "ok")
       \/ /\ IF del[w].user \in kcUsers THEN Fault ELSE NoFault
          /\ UNCHANGED kcUsers
          /\ DeleteUserNext(w, del[w].st, "fail")
    /\ UNCHANGED <<attrs, sogoRows, mailboxes, provider, daemonVars, liveTimers, startPc,
                   connOk, triggers, tick, pass, histVars>>

\* Step 3: sogoUserService.deleteUser(email) answered; when the code asks for
\* the retry, sogoUserService.deleteUser(username) is called and answers too.
\* Then allSuccess is computed and deleteUser returns to its caller.
WebmailDone(w) ==
    /\ UNCHANGED <<mailVars, laterVars>>
    /\ Alive
    /\ del[w].pc = "webmail"
    /\ \E a \in SogoDeleteAnswers(Email(del[w].user)) :
         LET u == del[w].user
             first == webmailAfterPrimary(a)
             rows1 == IF a.deleted THEN sogoRows \ {Email(u)} ELSE sogoRows
         IN  \E b \in IF first.retry THEN SogoDeleteAnswers(Username(u)) ELSE {a} :
               LET wm == IF first.retry /\ b.success THEN "ok" ELSE first.webmail
                   ok == allSuccess(del[w].st, del[w].kc, wm)
               IN  /\ IF ~a.success THEN Fault ELSE NoFault
                   /\ sogoRows' = IF first.retry /\ b.deleted THEN rows1 \ {Username(u)} ELSE rows1
                   /\ returned' = [returned EXCEPT ![w] =
                          [valid |-> TRUE, user |-> u, st |-> del[w].st, kc |-> del[w].kc,
                           wm |-> wm, success |-> ok,
                           rows |-> IF ~a.success THEN "error"
                                    ELSE IF a.deleted THEN "some" ELSE "zero",
                           wmCalls |-> IF first.retry THEN <<Email(u), Username(u)>>
                                       ELSE <<Email(u)>>]]
                   /\ DeleteUserReturn(w, ok)
    /\ del' = [del EXCEPT ![w] = NoDelete]
    /\ UNCHANGED <<attrs, kcUsers, mailboxes, provider, maxSessionDurationMin, running, timer,
                   lastRun, liveTimers, startPc, connOk, triggers, delStarted, probed>>

----------------------------------------------------------------------------
(* tick() *)

\* Variant: no isTicking test.
tickGuardNone(max, ticking) == shouldRun(max)

\* tick() goes on only when the policy enables it and no tick is in flight.
tickGuard(max, ticking) == shouldRun(max) /\ ~ticking

\* tick() up to its first await: past the guards it sets isTicking and
\* stats.lastRun and asks the IdP for all identities.
TickCall ==
    IF tickGuard(maxSessionDurationMin, isTicking)
    THEN /\ isTicking' = TRUE
         /\ lastRun' = lastRun + 1
         /\ tick' = [IdleTick EXCEPT !.pc = "list"]
         /\ inflight' = inflight + 1
    ELSE UNCHANGED <<isTicking, lastRun, tick, inflight>>

\* The interval's callback: it returns when a tick is in flight, else calls tick().
TimerFire ==
    /\ UNCHANGED <<mailVars, laterVars>>
    /\ Alive
    /\ liveTimers # {}
    /\ triggers < MaxTicks
    /\ triggers' = triggers + 1
    /\ IF isTicking THEN UNCHANGED <<isTicking, lastRun, tick, inflight>> ELSE TickCall
    /\ UNCHANGED <<envVars, maxSessionDurationMin, running, timer, stats, liveTimers, startPc,
                   connOk, pass, del, faults, delStarted, probed, returned>>

\* tick() called directly on the exported daemon.
TickDirect ==
    /\ UNCHANGED <<mailVars, laterVars>>
    /\ Alive
    /\ triggers < MaxTicks
    /\ triggers' = triggers + 1
    /\ TickCall
    /\ UNCHANGED <<envVars, maxSessionDurationMin, running, timer, stats, liveTimers, startPc,
                   connOk, pass, del, faults, delStarted, probed, returned>>

\* getAllUsers() answered the tick: the loop starts; or it threw: the outer
\* catch counts one error and the finally block clears isTicking.
TickListDone ==
    /\ UNCHANGED <<mailVars, laterVars>>
    /\ Alive
    /\ tick.pc = "list"
    /\ \/ /\ NoFault
          /\ TickResume(AllUsers, 0, 0, 0, 0)
       \/ /\ Fault
          /\ tick' = IdleTick
          /\ stats' = [stats EXCEPT !.totalErrors = @ + 1]
          /\ isTicking' = FALSE
          /\ inflight' = inflight - 1
    /\ UNCHANGED <<envVars, maxSessionDurationMin, running, timer, lastRun, liveTimers, startPc,
                   connOk, triggers, pass, del, delStarted, probed, returned>>

\* getUserById() answered the tick for the identity at tick.idx, or threw (it
\* throws at least when the identity no longer exists).  On an answer
\* shouldExpireUser decides, and an eligible identity is handed to deleteUser.
TickDetailDone ==
    /\ UNCHANGED <<mailVars, laterVars>>
    /\ Alive
    /\ tick.pc = "detail"
    /\ LET u == tick.list[tick.idx] IN
       \/ /\ u \in kcUsers
          /\ NoFault
          /\ probed' = probed \cup {<<"tick", u, RowSeen(u)>>}
          /\ IF shouldExpireUser(u, FALSE)
             THEN /\ tick' = [tick EXCEPT !.pc = "delete", !.expired = @ + 1]
                  /\ DeleteUserBegin("tick", u)
                  /\ UNCHANGED <<stats, isTicking, inflight>>
             ELSE /\ TickResume(tick.list, tick.idx, tick.expired, tick.deleted, tick.errors)
                  /\ UNCHANGED <<del, delStarted>>
       \/ /\ IF u \in kcUsers THEN Fault ELSE NoFault
          /\ probed' = probed \cup {<<"tick", u, "fail">>}
          /\ TickResume(tick.list, loopAfterCatch(tick.list, tick.idx), tick.expired,
                        tick.deleted, tick.errors + 1)
          /\ UNCHANGED <<del, delStarted>>
    /\ UNCHANGED <<envVars, maxSessionDurationMin, running, timer, lastRun, liveTimers, startPc,
                   connOk, triggers, pass, returned>>

----------------------------------------------------------------------------
(* start() and stop() *)

\* start() up to its first await: false when already running or when the
\* policy disables the daemon; otherwise the connectivity check is sent.
StartCall(s) ==
    /\ UNCHANGED <<mailVars, laterVars>>
    /\ Alive
    /\ startPc[s] = "idle"
    /\ startPc' = [startPc EXCEPT ![s] =
           IF running \/ ~shouldRun(maxSessionDurationMin) THEN "false" ELSE "check"]
    /\ UNCHANGED <<envVars, daemonVars, liveTimers, connOk, triggers, tick, pass, del, faults,
                   histVars>>

\* The connectivity check answered: running is set, tick() is called and the
\* interval is created; or it threw and start() returns false.
StartCheckDone(s) ==
    /\ UNCHANGED <<mailVars, laterVars>>
    /\ Alive
    /\ startPc[s] = "check"
    /\ \/ /\ NoFault
          /\ connOk' = [connOk EXCEPT ![s] = "ok"]
          /\ running' = TRUE
          /\ TickCall
          /\ timer' = s
          /\ liveTimers' = liveTimers \cup {s}
          /\ startPc' = [startPc EXCEPT ![s] = "true"]
       \/ /\ Fault
          /\ connOk' = [connOk EXCEPT ![s] = "fail"]
          /\ startPc' = [startPc EXCEPT ![s] = "false"]
          /\ UNCHANGED <<running, timer, liveTimers, isTicking, lastRun, tick, inflight>>
    /\ UNCHANGED <<envVars, maxSessionDurationMin, stats, triggers, pass, del,
                   delStarted, probed, returned>>

\* stop(): nothing when not running; otherwise running is cleared and the
\* interval behind this.timer is cancelled.
stop(isRunning, t, live) ==
    IF ~isRunning THEN [running |-> isRunning, timer |-> t, live |-> live]
    ELSE [running |-> FALSE, timer |-> "null", live |-> live \ {t}]

----------------------------------------------------------------------------
(* The SIGTERM / SIGINT handler and expireAllSessions() *)

\* The handler up to its first await: stop(), then expireAllSessions() asks the
\* IdP for all identities; with the policy off expireAllSessions() returns at
\* once and the handler exits the process.
Signal ==
    /\ UNCHANGED <<mailVars, laterVars>>
    /\ pass.pc = "none"
    /\ LET st == stop(running, timer, liveTimers) IN
         /\ running' = st.running
         /\ timer' = st.timer
         /\ liveTimers' = st.live
    /\ pass' = [NoPass EXCEPT !.pc = IF shouldRun(maxSessionDurationMin) THEN "list" ELSE "exited"]
    /\ UNCHANGED <<envVars, maxSessionDurationMin, isTicking, stats, lastRun, startPc, connOk,
                   triggers, tick, del, faults, histVars>>

\* getAllUsers() answered the pass: the loop starts; or it threw: the catch
\* logs it, expireAllSessions() returns and the handler exits the process.
PassListDone ==
    /\ UNCHANGED <<mailVars, laterVars>>
    /\ pass.pc = "list"
    /\ \/ NoFault /\ PassResume(AllUsers, 0, 0, 0)
       \/ Fault /\ pass' = [pass EXCEPT !.pc = "exited"]
    /\ UNCHANGED <<envVars, daemonVars, liveTimers, startPc, connOk, triggers, tick, del, histVars>>

\* getUserById() answered the pass for the identity at pass.idx, or threw.  An
\* identity without createdTimestamp is skipped; any other is force-expired.
PassDetailDone ==
    /\ UNCHANGED <<mailVars, laterVars>>
    /\ pass.pc = "detail"
    /\ LET u == pass.list[pass.idx] IN
       \/ /\ u \in kcUsers
          /\ NoFault
          /\ probed' = probed \cup {<<"pass", u, RowSeen(u)>>}
          /\ IF attrs[u].created # 0 /\ shouldExpireUser(u, TRUE)
             THEN /\ pass' = [pass EXCEPT !.pc = "delete"]
                  /\ DeleteUserBegin("pass", u)
             ELSE /\ PassResume(pass.list, pass.idx, pass.expired, pass.errors)
                  /\ UNCHANGED <<del, delStarted>>
       \/ /\ IF u \in kcUsers THEN Fault ELSE NoFault
          /\ probed' = probed \cup {<<"pass", u, "fail">>}
          /\ PassResume(pass.list, pass.idx, pass.expired, pass.errors + 1)
          /\ UNCHANGED <<del, delStarted>>
    /\ UNCHANGED <<envVars, daemonVars, liveTimers, startPc, connOk, triggers, tick,
                   returned, inflight>>

----------------------------------------------------------------------------
(* The reconciler in one process *)

Next ==
    \/ \E s \in Callers : StartCall(s)
    \/ \E s \in Callers : StartCheckDone(s)
    \/ TimerFire
    \/ TickDirect
    \/ TickListDone
    \/ TickDetailDone
    \/ Signal
    \/ PassListDone
    \/ PassDetailDone
    \/ \E w \in Workers : StalwartDone(w)
    \/ \E w \in Workers : StalwartFallbackDone(w)
    \/ \E w \in Workers : KeycloakDone(w)
    \/ \E w \in Workers : WebmailDone(w)

Spec == Init /\ [][Next]_vars

\* The steps of a tick in flight: the answer (or the failure) of the backend
\* call it awaits arrives and its continuation runs.
TickSteps ==
    \/ TickListDone
    \/ TickDetailDone
    \/ StalwartDone("tick")
    \/ StalwartFallbackDone("tick")
    \/ KeycloakDone("tick")
    \/ WebmailDone("tick")

\* The reconciler when every call a tick awaits is settled in the end: each
\* request resolves, rejects or times out, and the event loop runs the
\* continuation.
\* The identities differ in their enabled flag and creation time; each has a
\* mailbox on the stalwart backend and a row in the webmail store.
InitLive ==
    /\ Init
    /\ provider = "stalwart"
    /\ mailboxes = Users
    /\ sogoRows = {Email(u) : u \in Users}

SpecLive == InitLive /\ [][Next]_vars /\ WF_vars(TickSteps)
----------------------------------------------------------------------------
(* start() called twice on the exported daemon, and stop() *)

\* Two calls of start() on the exported singleton; in this part `startPc` and
\* `connOk` hold one value per call.
StartCallers == {"first", "second"}

InitStart ==
    /\ \E prof \in [Users -> Profiles] :
         /\ attrs = [u \in Users |-> [enabled |-> prof[u].enabled, created |-> prof[u].created]]
         /\ sogoRows = {Email(u) : u \in {x \in Users : prof[x].sogo}}
         /\ mailboxes = {u \in Users : prof[u].mailbox}
    /\ kcUsers = Users
    /\ provider \in {"stalwart", "mailcow"}
    /\ maxSessionDurationMin \in 0..MaxPolicy
    /\ running = FALSE
    /\ timer = "null"
    /\ isTicking = FALSE
    /\ stats = [totalScanned |-> 0, totalExpired |-> 0, totalDeleted |-> 0, totalErrors |-> 0]
    /\ lastRun = 0
    /\ liveTimers = {}
    /\ startPc = [s \in StartCallers |-> "idle"]
    /\ connOk = [s \in StartCallers |-> "none"]
    /\ triggers = 0
    /\ tick = IdleTick
    /\ pass = NoPass
    /\ del = [w \in Workers |-> NoDelete]
    /\ delStarted = {}
    /\ faults = 0
    /\ probed = {}
    /\ returned = [w \in Workers |-> NoReturn]
    /\ inflight = 0
    /\ MailIdle
    /\ LaterIdle

\* stop() called on the exported daemon.
StopCall ==
    /\ LET st == stop(running, timer, liveTimers) IN
         /\ running' = st.running
         /\ timer' = st.timer
         /\ liveTimers' = st.live
    /\ UNCHANGED <<envVars, maxSessionDurationMin, isTicking, stats, lastRun, startPc, connOk,
                   triggers, tick, pass, del, faults, histVars, mailVars, laterVars>>

NextStart ==
    \/ \E s \in StartCallers : StartCall(s)
    \/ \E s \in StartCallers : StartCheckDone(s)
    \/ StopCall
    \/ TimerFire
    \/ TickListDone
    \/ TickDetailDone

SpecStart == InitStart /\ [][NextStart]_vars


----------------------------------------------------------------------------
(* The standalone daemon process at a termination signal: the handler the
   daemon module registers and the runner's shutdown both listen *)

\* The listeners of SIGTERM / SIGINT in the standalone process, in the order
\* of their registration: the daemon module's (registered when the runner
\* requires the module) and the runner's shutdown.  In this part `pass`, `del`
\* and `returned` hold one value per listener.
Handlers == {"daemon", "runner"}

\* The standalone process after start() returned true, between two ticks.
InitShutdown ==
    /\ \E prof \in [Users -> Profiles] :
         /\ attrs = [u \in Users |-> [enabled |-> prof[u].enabled, created |-> prof[u].created]]
         /\ sogoRows = {Email(u) : u \in {x \in Users : prof[x].sogo}}
         /\ mailboxes = {u \in Users : prof[u].mailbox}
    /\ kcUsers = Users
    /\ provider \in {"stalwart", "mailcow"}
    /\ maxSessionDurationMin \in 1..MaxPolicy
    /\ running = TRUE
    /\ timer = "runner"
    /\ liveTimers = {"runner"}
    /\ isTicking = FALSE
    /\ stats = [totalScanned |-> 0, totalExpired |-> 0, totalDeleted |-> 0, totalErrors |-> 0]
    /\ lastRun = 1
    /\ startPc = [s \in Callers |-> "true"]
    /\ connOk = [s \in Callers |-> "ok"]
    /\ triggers = 1
    /\ tick = IdleTick
    /\ pass = [h \in Handlers |-> NoPass]
    /\ del = [h \in Handlers |-> NoDelete]
    /\ delStarted = {}
    /\ faults = 0
    /\ probed = {}
    /\ returned = [h \in Handlers |-> NoReturn]
    /\ inflight = 0
    /\ MailIdle
    /\ LaterIdle

\* process.exit(0) has not run in the standalone process.
ShutdownAlive == \A h \in Handlers : pass[h].pc # "exited"

\* What follows expireAllSessions() in a listener: the daemon module's handler
\* exits the process, the runner's shutdown closes the database pools first.
afterPass(h) == IF h = "daemon" THEN "exited" ELSE "close"

\* The loop of expireAllSessions() of listener h after the identity at idx.
ShutdownResume(h, list, idx, expired, errors) ==
    LET j == NextEnabled(list, idx + 1) IN
    pass' = [pass EXCEPT ![h] = [pc |-> IF j <= Len(list) THEN "detail" ELSE afterPass(h),
                                 list |-> list, idx |-> j, expired |-> expired,
                                 errors |-> errors]]

\* One signal arrives: both listeners run up to their first await, the daemon
\* module's first.  Each calls stop() (the second call finds the daemon
\* stopped) and expireAllSessions(), which asks the IdP for all identities.
ShutdownSignal ==
    /\ \A h \in Handlers : pass[h].pc = "none"
    /\ LET first == stop(running, timer, liveTimers)
           second == stop(first.running, first.timer, first.live)
       IN  /\ running' = second.running
           /\ timer' = second.timer
           /\ liveTimers' = second.live
    /\ pass' = [h \in Handlers |->
                   [NoPass EXCEPT !.pc = IF shouldRun(maxSessionDurationMin)
                                         THEN "list" ELSE afterPass(h)]]
    /\ UNCHANGED <<envVars, maxSessionDurationMin, isTicking, stats, lastRun, startPc, connOk,
                   triggers, tick, del, faults, histVars, mailVars, laterVars>>

\* getAllUsers() answered the pass of listener h, or threw.
ShutdownListDone(h) ==
    /\ ShutdownAlive
    /\ pass[h].pc = "list"
    /\ \/ NoFault /\ ShutdownResume(h, AllUsers, 0, 0, 0)
       \/ Fault /\ pass' = [pass EXCEPT ![h].pc = afterPass(h)]
    /\ UNCHANGED <<envVars, daemonVars, liveTimers, startPc, connOk, triggers, tick, del,
                   histVars, mailVars, laterVars>>

\* getUserById() answered the pass of listener h, or threw.
ShutdownDetailDone(h) ==
    /\ ShutdownAlive
    /\ pass[h].pc = "detail"
    /\ LET u == pass[h].list[pass[h].idx] IN
       \/ /\ u \in kcUsers
          /\ NoFault
          /\ probed' = probed \cup {<<h, u, RowSeen(u)>>}
          /\ IF attrs[u].created # 0 /\ shouldExpireUser(u, TRUE)
             THEN /\ pass' = [pass EXCEPT ![h].pc = "delete"]
                  /\ DeleteUserBegin(h, u)
             ELSE /\ ShutdownResume(h, pass[h].list, pass[h].idx, pass[h].expired,
                                    pass[h].errors)
                  /\ UNCHANGED <<del, delStarted>>
       \/ /\ IF u \in kcUsers THEN Fault ELSE NoFault
          /\ probed' = probed \cup {<<h, u, "fail">>}
          /\ ShutdownResume(h, pass[h].list, pass[h].idx, pass[h].expired, pass[h].errors + 1)
          /\ UNCHANGED <<del, delStarted>>
    /\ UNCHANGED <<envVars, daemonVars, liveTimers, startPc, connOk, triggers, tick,
                   returned, inflight, mailVars, laterVars>>

\* A mail-backend or IdP call of the deleteUser of listener h answered, or
\* threw: the next backend is called.
ShutdownBackendDone(h) ==
    /\ ShutdownAlive
    /\ del[h].pc \in {"stalwart", "stalwartFallback", "keycloak"}
    /\ IF del[h].pc = "keycloak"
       THEN /\ \/ /\ del[h].user \in kcUsers
                  /\ NoFault
                  /\ kcUsers' = kcUsers \ {del[h].user}
                  /\ DeleteUserNext(h, del[h].st, "ok")
               \/ /\ IF del[h].user \in kcUsers THEN Fault ELSE NoFault
                  /\ UNCHANGED kcUsers
                  /\ DeleteUserNext(h, del[h].st, "fail")
            /\ UNCHANGED mailboxes
       ELSE /\ \/ /\ Fault
                  /\ DeleteUserNext(h, "fail", "null")
                  /\ UNCHANGED mailboxes
               \/ \E a \in ApiDeleteAnswers(del[h].user) :
                    /\ IF a.fault THEN Fault ELSE NoFault
                    /\ mailboxes' = IF a.removes THEN mailboxes \ {del[h].user} ELSE mailboxes
                    /\ IF a.res.success
                       THEN DeleteUserNext(h, a.res.kind, "null")
                       ELSE IF del[h].pc = "stalwart"
                       THEN del' = [del EXCEPT ![h].pc = "stalwartFallback",
                                               ![h].order = Append(@, "stalwart"),
                                               ![h].done = @ + 1]
                       ELSE DeleteUserNext(h, "fail", "null")
            /\ UNCHANGED kcUsers
    /\ UNCHANGED <<attrs, sogoRows, provider, daemonVars, liveTimers, startPc, connOk, triggers,
                   tick, pass, histVars, mailVars, laterVars>>

\* The webmail store answered the deleteUser of listener h: deleteUser returns
\* and the loop of that listener's pass goes on.
ShutdownWebmailDone(h) ==
    /\ ShutdownAlive
    /\ del[h].pc = "webmail"
    /\ \E a \in SogoDeleteAnswers(Email(del[h].user)) :
         LET u == del[h].user
             first == webmailAfterPrimary(a)
             rows1 == IF a.deleted THEN sogoRows \ {Email(u)} ELSE sogoRows
         IN  \E b \in IF first.retry THEN SogoDeleteAnswers(Username(u)) ELSE {a} :
               LET wm == IF first.retry /\ b.success THEN "ok" ELSE first.webmail
                   ok == allSuccess(del[h].st, del[h].kc, wm)
               IN  /\ IF ~a.success THEN Fault ELSE NoFault
                   /\ sogoRows' = IF first.retry /\ b.deleted THEN rows1 \ {Username(u)} ELSE rows1
                   /\ returned' = [returned EXCEPT ![h] =
                          [valid |-> TRUE, user |-> u, st |-> del[h].st, kc |-> del[h].kc,
                           wm |-> wm, success |-> ok,
                           rows |-> IF ~a.success THEN "error"
                                    ELSE IF a.deleted THEN "some" ELSE "zero",
                           wmCalls |-> IF first.retry THEN <<Email(u), Username(u)>>
                                       ELSE <<Email(u)>>]]
                   /\ ShutdownResume(h, pass[h].list, pass[h].idx,
                                     IF ok THEN pass[h].expired + 1 ELSE pass[h].expired,
                                     IF ok THEN pass[h].errors ELSE pass[h].errors + 1)
    /\ del' = [del EXCEPT ![h] = NoDelete]
    /\ UNCHANGED <<attrs, kcUsers, mailboxes, provider, daemonVars, liveTimers, startPc, connOk,
                   triggers, tick, delStarted, probed, inflight, mailVars, laterVars>>

\* The runner's shutdown after its pass: the database pools are closed and
\* process.exit(0) runs.
ShutdownCloseDone ==
    /\ ShutdownAlive
    /\ pass["runner"].pc = "close"
    /\ pass' = [pass EXCEPT !["runner"].pc = "exited"]
    /\ UNCHANGED <<envVars, daemonVars, liveTimers, startPc, connOk, triggers, tick, del, faults,
                   histVars, mailVars, laterVars>>

NextShutdown ==
    \/ ShutdownSignal
    \/ \E h \in Handlers : ShutdownListDone(h)
    \/ \E h \in Handlers : ShutdownDetailDone(h)
    \/ \E h \in Handlers : ShutdownBackendDone(h)
    \/ \E h \in Handlers : ShutdownWebmailDone(h)
    \/ ShutdownCloseDone

SpecShutdown == InitShutdown /\ [][NextShutdown]_vars


----------------------------------------------------------------------------
(* mailService.deleteMailbox(email) on its own, against the mail backend *)

\* The reconciler is not started: an identity store as registration leaves it.
ReconcilerIdle ==
    /\ attrs = [u \in Users |-> [enabled |-> Baseline.enabled, created |-> Baseline.created]]
    /\ kcUsers = Users
    /\ sogoRows = {Email(u) : u \in Users}
    /\ maxSessionDurationMin = 0
    /\ running = FALSE
    /\ timer = "null"
    /\ isTicking = FALSE
    /\ stats = [totalScanned |-> 0, totalExpired |-> 0, totalDeleted |-> 0, totalErrors |-> 0]
    /\ lastRun = 0
    /\ liveTimers = {}
    /\ startPc = [s \in Callers |-> "idle"]
    /\ connOk = [s \in Callers |-> "none"]
    /\ triggers = 0
    /\ tick = IdleTick
    /\ pass = NoPass
    /\ del = [w \in Workers |-> NoDelete]
    /\ delStarted = {}
    /\ probed = {}
    /\ returned = [w \in Workers |-> NoReturn]
    /\ inflight = 0

\* Values of WORKINPILOT_MAIL_PROVIDER, "" for unset.
EnvProviders == {"", "mailcow", "stalwart", "STALWART", "postfix"}

\* String.toLowerCase on these values.
toLowerCase(v) == IF v = "STALWART" THEN "stalwart" ELSE v

\* MailServiceConfig.constructor: the setting in lower case, mailcow when it is
\* unset or names no known provider.
configProvider(v) ==
    LET p == toLowerCase(IF v = "" THEN "mailcow" ELSE v)
    IN  IF p \in {"mailcow", "stalwart"} THEN p ELSE "mailcow"

\* MailServiceAbstraction.initializeService: the provider of the
\* configuration, mailcow when the stalwart service fails to load.
initializeService(p, loads) == IF p = "stalwart" /\ ~loads THEN "mailcow" ELSE p

InitMail ==
    /\ ReconcilerIdle
    /\ provider \in {initializeService(configProvider(v), l) : v \in EnvProviders, l \in BOOLEAN}
    /\ mailboxes \in SUBSET Users
    /\ faults = 0
    /\ mConfigured \in BOOLEAN
    /\ mCall = [c \in Slots |-> IdleCall]
    /\ mRes = [c \in Slots |-> NoResult]
    /\ mLast = [u \in Users |-> FALSE]
    /\ mCalls = 0
    /\ mCreates = 0
    /\ LaterIdle

reconcilerOnly == <<attrs, kcUsers, sogoRows, daemonVars, liveTimers, startPc, connOk,
                    triggers, tick, pass, del, histVars>>

\* deleteMailbox() returns res for the request in slot c.
MailReturn(c, res, clean, lookup, delr) ==
    LET k == mCall[c].key IN
    /\ mRes' = [mRes EXCEPT ![c] =
           [valid |-> TRUE, key |-> k, success |-> res.success, kind |-> res.kind,
            delIssued |-> res.delIssued, after |-> mCall[c].after,
            clean |-> clean, lookup |-> lookup, delr |-> delr,
            lookups |-> mCall[c].lookups, deletes |-> mCall[c].deletes,
            name |-> mCall[c].name]]
    /\ mCall' = [mCall EXCEPT ![c] = IdleCall]
    /\ mLast' = IF res.kind = "deleted" THEN [mLast EXCEPT ![k] = TRUE] ELSE mLast

\* A mailbox is created for an identity (registration, pre-deployment); no
\* request in flight for it is any longer one that follows a deletion.
MailCreate(u) ==
    /\ mCreates < MaxCreates
    /\ u \notin mailboxes
    /\ mailboxes' = mailboxes \cup {u}
    /\ mLast' = [mLast EXCEPT ![u] = FALSE]
    /\ mCall' = [c \in Slots |->
                   IF mCall[c].key = u THEN [mCall[c] EXCEPT !.after = FALSE] ELSE mCall[c]]
    /\ mCreates' = mCreates + 1
    /\ UNCHANGED <<reconcilerOnly, laterVars, provider, faults, mConfigured, mRes, mCalls>>

\* deleteMailbox(email) up to its first await: without configuration it
\* returns a failure at once, otherwise the lookup is sent.
DeleteMailboxCall(c, u) ==
    /\ mCalls < MaxCalls
    /\ mCall[c].pc = "idle"
    /\ mCalls' = mCalls + 1
    /\ IF ~mConfigured
       THEN LET call == [IdleCall EXCEPT !.key = u, !.after = mLast[u]]
                res == MailServiceDeleteMailbox(provider, FALSE, "error", "error")
            IN  /\ mRes' = [mRes EXCEPT ![c] =
                       [valid |-> TRUE, key |-> u, success |-> res.success, kind |-> res.kind,
                        delIssued |-> res.delIssued, after |-> call.after, clean |-> TRUE,
                        lookup |-> "none", delr |-> "none",
                        lookups |-> <<>>, deletes |-> <<>>, name |-> Null]]
                /\ UNCHANGED mCall
       ELSE /\ mCall' = [mCall EXCEPT ![c] =
                   [IdleCall EXCEPT !.pc = "lookup", !.key = u, !.after = mLast[u],
                                    !.lookups = <<Email(u)>>]]
            /\ UNCHANGED mRes
    /\ UNCHANGED <<reconcilerOnly, laterVars, provider, mailboxes, faults, mConfigured, mLast, mCreates>>

\* What the backend can answer to the lookup of u, with whether the answer is a
\* failure of the backend: stalwart answers getPrincipal; mailcow answers the
\* direct fetch and, after a 404, the listing of the domain.
LookupAnswers(p, u) ==
    IF p = "stalwart"
    THEN {[r |-> IF u \in mailboxes THEN "found" ELSE "404", fault |-> FALSE],
          [r |-> "error", fault |-> TRUE]}
    ELSE {[r |-> MailcowGetMailbox(d, l, u \in mailboxes), fault |-> (d = "error" \/ l = "error")] :
            d \in (IF u \in mailboxes THEN {"found", "404"} ELSE {"404"}) \cup {"error"},
            l \in {"ok", "error"}}

\* The name the mail backend can hold for the mailbox of u: none, the email
\* address, or another name.
PrincipalNames(u) == {Null, Val(Email(u)), Val(Username(u))}

\* Variant: the delete call is always made with the identifier supplied.
principalNameSupplied(name, email) == email

\* The identifier of the delete call: the name of the principal found, or the
\* identifier supplied when the principal has none.
principalName(name, email) == IF ~name.null THEN name.val ELSE email

\* The lookup answered: a mailbox that was found is deleted next, otherwise
\* deleteMailbox() returns.
MailLookupDone(c) ==
    /\ mCall[c].pc = "lookup"
    /\ \E a \in LookupAnswers(provider, mCall[c].key) :
         /\ IF a.fault THEN Fault ELSE NoFault
         /\ IF a.r = "found"
            THEN /\ \E name \in PrincipalNames(mCall[c].key) :
                      mCall' = [mCall EXCEPT ![c].pc = "delete", ![c].name = name,
                                  ![c].deletes = <<principalName(name, Email(mCall[c].key))>>]
                 /\ UNCHANGED <<mRes, mLast>>
            ELSE MailReturn(c, MailServiceDeleteMailbox(provider, mConfigured, a.r, "error"),
                            mCall[c].clean /\ ~a.fault, a.r, "none")
    /\ UNCHANGED <<reconcilerOnly, laterVars, provider, mailboxes, mConfigured, mCalls, mCreates>>

\* The delete call answered: 2xx and the mailbox is gone, 404 when it was gone
\* already, or a failure; deleteMailbox() returns.
MailDeleteDone(c) ==
    /\ mCall[c].pc = "delete"
    /\ LET u == mCall[c].key IN
       \/ LET d == IF u \in mailboxes THEN "2xx" ELSE "404" IN
          /\ NoFault
          /\ mailboxes' = mailboxes \ {u}
          /\ MailReturn(c, MailServiceDeleteMailbox(provider, mConfigured, "found", d),
                        mCall[c].clean, "found", d)
       \/ /\ Fault
          /\ UNCHANGED mailboxes
          /\ MailReturn(c, MailServiceDeleteMailbox(provider, mConfigured, "found", "error"),
                        FALSE, "found", "error")
    /\ UNCHANGED <<reconcilerOnly, laterVars, provider, mConfigured, mCalls, mCreates>>

NextMail ==
    \/ \E u \in Users : MailCreate(u)
    \/ \E c \in Slots, u \in Users : DeleteMailboxCall(c, u)
    \/ \E c \in Slots : MailLookupDone(c)
    \/ \E c \in Slots : MailDeleteDone(c)

SpecMail == InitMail /\ [][NextMail]_vars


----------------------------------------------------------------------------
(* TokenService: the encryption of refresh tokens (aes-256-gcm) *)

\* this.minValiditySeconds
minValiditySeconds == 60

\* A string is a sequence of characters; two characters are enough to tell
\* strings apart.  "" is the empty sequence.
Chars == {0, 1}
Strings == UNION {[1..n -> Chars] : n \in 0..MaxTokenLen}

EncryptionKeys == {<<0>>, <<1>>}   \* values of TOKEN_SERVICE_ENCRYPTION_KEY
IVs == {<<0>>, <<1>>}              \* values of crypto.randomBytes(16)

\* The key stream of the counter mode behind GCM: one character per position,
\* determined by key and IV.
KeyStream(key, iv, i) == (key[1] + iv[1] + i) % 2

\* cipher.update + cipher.final: the plaintext added to the key stream.
Cipher(key, iv, text) == [i \in 1..Len(text) |-> (text[i] + KeyStream(key, iv, i)) % 2]

\* Variant: decryption with the key stream of the first IV.
DecipherFixedIv(key, iv, ct) ==
    [i \in 1..Len(ct) |-> (ct[i] + 2 - KeyStream(key, <<0>>, i)) % 2]

\* decipher.update + decipher.final: the key stream taken off again.
Decipher(key, iv, ct) == [i \in 1..Len(ct) |-> (ct[i] + 2 - KeyStream(key, iv, i)) % 2]

\* cipher.getAuthTag(): the authentication tag over IV and ciphertext under
\* the key, taken as an ideal MAC (different inputs never share a tag).
AuthTag(key, iv, ct) == key \o iv \o ct

\* _encryptRefreshToken(refreshToken) with the IV that randomBytes returned:
\* null for a missing (empty) token, else the parts of "iv:authTag:ciphertext".
EncryptRefreshToken(key, iv, refreshToken) ==
    IF refreshToken = <<>> THEN Null
    ELSE LET ct == Cipher(key, iv, refreshToken)
         IN  Val(<<iv, AuthTag(key, iv, ct), ct>>)

\* _decryptRefreshToken(encryptedToken), the stored value given as the parts
\* that split(':') yields: null for a missing value; any other number of parts
\* than 3 and a tag that does not verify throw inside the try block, and the
\* catch returns null.
DecryptRefreshToken(key, stored) ==
    IF stored.null \/ stored.val = <<>> THEN Null
    ELSE IF Len(stored.val) # 3 THEN Null
    ELSE LET iv == stored.val[1]
             authTag == stored.val[2]
             ct == stored.val[3]
         IN  IF authTag # AuthTag(key, iv, ct) THEN Null
             ELSE Val(Decipher(key, iv, ct))

\* Values an altered auth tag can take: garbage, or the tag of another message.
OtherTags(key) ==
    {<<>>} \cup {AuthTag(key, iv, Cipher(key, iv, t)) : iv \in IVs, t \in Strings \ {<<>>}}

\* The stored parts v with exactly one of IV, auth tag, ciphertext altered.
AlteredOnce(key, v) ==
    {<<iv, v[2], v[3]>> : iv \in IVs \ {v[1]}} \cup
    {<<v[1], tag, v[3]>> : tag \in OtherTags(key) \ {v[2]}} \cup
    {<<v[1], v[2], ct>> : ct \in Strings \ {v[3]}}

\* Stored values that are not of the form iv:authTag:ciphertext.
Malformed(v) ==
    {<<>>, <<v[1]>>, <<v[1], v[3]>>, <<v[2], v[3]>>, <<v[1], v[2], v[3], v[3]>>}

outsideCrypt == <<envVars, daemonVars, loopVars, histVars, mailVars, tokenVars, onboardVars>>

\* Everything outside the token encryption is at rest.
RestOutsideCrypt ==
    /\ ReconcilerIdle /\ provider = "stalwart" /\ mailboxes = {} /\ faults = 0
    /\ MailIdle
    /\ TokenIdle
    /\ OnboardIdle

InitCrypt ==
    /\ RestOutsideCrypt
    /\ cKey \in EncryptionKeys
    /\ cPc = "start"
    /\ cToken \in Strings
    /\ cGenuine = Null
    /\ cStored = Null
    /\ cOut = Null

\* _encryptRefreshToken(cToken) is called; its result is what is stored.
CryptEncrypt ==
    /\ cPc = "start"
    /\ \E iv \in IVs :
         /\ cGenuine' = EncryptRefreshToken(cKey, iv, cToken)
         /\ cStored' = EncryptRefreshToken(cKey, iv, cToken)
    /\ cPc' = "encrypted"
    /\ UNCHANGED <<outsideCrypt, cKey, cToken, cOut>>

\* The stored value is altered: one component is replaced, or the value loses
\* its form.
CryptAlter ==
    /\ cPc = "encrypted"
    /\ ~cGenuine.null
    /\ \E v \in AlteredOnce(cKey, cGenuine.val) \cup Malformed(cGenuine.val) : cStored' = Val(v)
    /\ cPc' = "altered"
    /\ UNCHANGED <<outsideCrypt, cKey, cToken, cGenuine, cOut>>

\* _decryptRefreshToken(cStored) is called.
CryptDecrypt ==
    /\ cPc \in {"encrypted", "altered"}
    /\ cOut' = DecryptRefreshToken(cKey, cStored)
    /\ cPc' = IF cPc = "encrypted" THEN "decrypted" ELSE "rejected"
    /\ UNCHANGED <<outsideCrypt, cKey, cToken, cGenuine, cStored>>

NextCrypt ==
    \/ CryptEncrypt
    \/ CryptAlter
    \/ CryptDecrypt

SpecCrypt == InitCrypt /\ [][NextCrypt]_vars


----------------------------------------------------------------------------
(* TokenService: access, ID and refresh tokens per identity key *)

\* Variant: the expiry is compared with the clock in milliseconds.
isAccessTokenValidMillis(accessToken, now) ==
    accessToken # NoTok /\ accessToken.exp # 0 /\ accessToken.exp - now * 1000 > minValiditySeconds

\* Variant: a token counts as valid until it expires.
isAccessTokenValidNoBuffer(accessToken, now) ==
    accessToken # NoTok /\ accessToken.exp # 0 /\ accessToken.exp - now > 0

\* _isAccessTokenValid(accessToken): the token decodes, has an exp, and more
\* than minValiditySeconds remain.
isAccessTokenValid(accessToken, now) ==
    accessToken # NoTok /\ accessToken.exp # 0 /\ accessToken.exp - now > minValiditySeconds

\* What the token endpoint can answer to a refresh grant at time now, the next
\* access token being number n: a failure (not ok, or the request threw), or
\* new tokens, with or without a refresh token and an ID token.
GrantAnswers(n, now) ==
    {[ok |-> FALSE, access |-> NoTok, rt |-> <<>>, idt |-> NoTok]} \cup
    {[ok |-> TRUE, access |-> [n |-> n, exp |-> now + TokenLifetime], rt |-> r,
      idt |-> IF i THEN [n |-> n, exp |-> now + TokenLifetime] ELSE NoTok] :
        r \in {<<>>, <<0>>, <<1>>}, i \in BOOLEAN}

\* Variant: the refresh token the IdP issued is dropped.
refreshAccessTokenKeepOld(refreshToken, answer) ==
    IF ~answer.ok THEN Null
    ELSE Val([accessToken |-> answer.access, refreshToken |-> refreshToken,
              idToken |-> answer.idt])

\* _refreshAccessToken(refreshToken) once the token endpoint answered: null on
\* a failure, else the new tokens, the old refresh token standing in for a
\* missing new one.
refreshAccessToken(refreshToken, answer) ==
    IF ~answer.ok THEN Null
    ELSE Val([accessToken |-> answer.access,
              refreshToken |-> IF answer.rt # <<>> THEN answer.rt ELSE refreshToken,
              idToken |-> answer.idt])

\* Variant: the entry is written before the result of the grant is tested.
entryAfterRefreshEager(entry, newTokens) ==
    IF newTokens.null THEN [entry EXCEPT !.access = NoTok]
    ELSE [entry EXCEPT !.access = newTokens.val.accessToken,
                       !.idt = IF newTokens.val.idToken # NoTok THEN newTokens.val.idToken ELSE @]

\* getValidAccessToken after the refresh: the session entry keeps its tokens
\* when the grant gave no access token, else takes the new access token and,
\* when one was issued, the new ID token.
entryAfterRefresh(entry, newTokens) ==
    IF newTokens.null \/ newTokens.val.accessToken = NoTok THEN entry
    ELSE [entry EXCEPT !.access = newTokens.val.accessToken,
                       !.idt = IF newTokens.val.idToken # NoTok THEN newTokens.val.idToken ELSE @]

\* Variant: the access token is not required.
initializeGuardKeyOnly(username, accessToken, hasSession) ==
    username # NoKey /\ hasSession

\* initializeUserTokens goes on only with a username, an access token and a
\* session.
initializeGuard(username, accessToken, hasSession) ==
    username # NoKey /\ accessToken # NoTok /\ hasSession

\* Variant: the session entry is left in place.
sessionWithoutKept(sess, username) == sess

\* delete session.tokenService[username]
sessionWithout(sess, username) == [sess EXCEPT ![username] = NoEntry]

outsideToken == <<envVars, daemonVars, loopVars, histVars, mailVars, cGenuine, cPc, cToken,
                  cStored, cOut, onboardVars>>

\* sessionTokens, read before the await, is still the object the session holds.
sameEntryObject(entry, oid) == entry.oid = oid

InitToken ==
    /\ ReconcilerIdle /\ provider = "stalwart" /\ mailboxes = {} /\ faults = 0
    /\ MailIdle
    /\ CryptIdle
    /\ OnboardIdle
    /\ tNow = 1
    /\ tConfigured \in BOOLEAN
    /\ tSess = [k \in TokenKeys |-> NoEntry]
    /\ tStore = [k \in TokenKeys |-> Null]
    /\ tGet = [g \in GetSlots |-> IdleGet]
    /\ tLast = NoCall
    /\ tOps = 0
    /\ tIssued = 0
    /\ tRequests = 0
    /\ tInv = [k \in TokenKeys |-> FALSE]

\* Time passes.
TokenClock ==
    /\ tNow < Len(ClockTimes)
    /\ tNow' = tNow + 1
    /\ UNCHANGED <<outsideToken, cKey, tConfigured, tSess, tStore, tGet, tLast, tOps, tIssued,
                   tRequests, tInv>>

\* initializeUserTokens(username, tokens, session), called after a login with
\* the tokens the IdP issued (any of them may be missing).
InitializeUserTokens(username, hasAccess, refreshToken, hasId, hasSession) ==
    /\ tOps < MaxTokenOps
    /\ hasAccess => tIssued < MaxIssued
    /\ hasId => hasAccess
    /\ tOps' = tOps + 1
    /\ LET accessToken == IF hasAccess
                          THEN [n |-> tIssued + 1, exp |-> ClockTimes[tNow] + TokenLifetime]
                          ELSE NoTok
           idToken == IF hasId THEN accessToken ELSE NoTok
           go == initializeGuard(username, accessToken, hasSession)
       IN  /\ tIssued' = IF hasAccess THEN tIssued + 1 ELSE tIssued
           /\ tSess' = IF go THEN [tSess EXCEPT ![username] =
                                      [oid |-> tOps + 1, access |-> accessToken, idt |-> idToken]]
                       ELSE tSess
           /\ IF go /\ refreshToken # <<>>
              THEN \E iv \in IVs :
                     tStore' = [tStore EXCEPT ![username] = EncryptRefreshToken(cKey, iv, refreshToken)]
              ELSE UNCHANGED tStore
           /\ tInv' = IF go THEN [tInv EXCEPT ![username] = FALSE] ELSE tInv
           /\ tLast' = [NoCall EXCEPT !.op = "initialize", !.key = username,
                                      !.hasSession = hasSession, !.tok = accessToken,
                                      !.rt = refreshToken, !.hasId = hasId,
                                      !.ret = IF go THEN "true" ELSE "false"]
    /\ UNCHANGED <<outsideToken, cKey, tNow, tConfigured, tGet, tRequests>>

\* invalidateTokens(username, session)
InvalidateTokens(username, hasSession) ==
    /\ tOps < MaxTokenOps
    /\ tOps' = tOps + 1
    /\ IF username = NoKey
       THEN /\ tLast' = [NoCall EXCEPT !.op = "invalidate", !.key = username,
                                       !.hasSession = hasSession, !.ret = "false"]
            /\ UNCHANGED <<tSess, tStore, tInv>>
       ELSE /\ tSess' = IF hasSession THEN sessionWithout(tSess, username) ELSE tSess
            /\ tStore' = [tStore EXCEPT ![username] = Null]
            /\ tInv' = IF hasSession THEN [tInv EXCEPT ![username] = TRUE] ELSE tInv
            /\ tLast' = [NoCall EXCEPT !.op = "invalidate", !.key = username,
                                       !.hasSession = hasSession, !.ret = "true"]
    /\ UNCHANGED <<outsideToken, cKey, tNow, tConfigured, tGet, tIssued, tRequests>>

\* getValidAccessToken(username, session) up to its first await: null without
\* username, session or session entry; the cached token when it is valid;
\* null without a stored refresh token, when it does not decrypt, or when the
\* IdP settings are missing; otherwise the refresh grant is sent.
GetValidAccessToken(g, username, hasSession) ==
    /\ tOps < MaxTokenOps
    /\ tGet[g].pc = "idle"
    /\ tOps' = tOps + 1
    /\ LET entry == IF username = NoKey \/ ~hasSession THEN NoEntry ELSE tSess[username]
           stored == IF username = NoKey THEN Null ELSE tStore[username]
           refreshToken == DecryptRefreshToken(cKey, stored)
           called == [NoCall EXCEPT !.op = "get", !.key = username, !.hasSession = hasSession]
       IN  IF entry.oid = 0 \/ entry.access = NoTok
           THEN /\ tLast' = [called EXCEPT !.ret = "null"]
                /\ UNCHANGED <<tGet, tRequests>>
           ELSE IF isAccessTokenValid(entry.access, ClockTimes[tNow])
           THEN /\ tLast' = [called EXCEPT !.ret = "token", !.tok = entry.access]
                /\ UNCHANGED <<tGet, tRequests>>
           ELSE IF stored.null \/ refreshToken.null \/ refreshToken.val = <<>> \/ ~tConfigured
           THEN /\ tLast' = [called EXCEPT !.ret = "null"]
                /\ UNCHANGED <<tGet, tRequests>>
           ELSE /\ tGet' = [tGet EXCEPT ![g] = [pc |-> "refresh", key |-> username,
                                                oid |-> entry.oid, rt |-> refreshToken.val]]
                /\ tRequests' = tRequests + 1
                /\ UNCHANGED tLast
    /\ UNCHANGED <<outsideToken, cKey, tNow, tConfigured, tSess, tStore, tIssued, tInv>>

\* The token endpoint answered the refresh grant (or the request failed):
\* getValidAccessToken writes the new tokens into the entry object it read
\* before the await, stores a changed refresh token, and returns.
RefreshDone(g) ==
    /\ tGet[g].pc = "refresh"
    /\ \E answer \in GrantAnswers(tIssued + 1, ClockTimes[tNow]) :
         LET k == tGet[g].key
             newTokens == refreshAccessToken(tGet[g].rt, answer)
             got == ~newTokens.null /\ newTokens.val.accessToken # NoTok
         IN  /\ answer.ok => tIssued < MaxIssued
             /\ tIssued' = IF answer.ok THEN tIssued + 1 ELSE tIssued
             /\ tSess' = IF sameEntryObject(tSess[k], tGet[g].oid)
                         THEN [tSess EXCEPT ![k] = entryAfterRefresh(@, newTokens)]
                         ELSE tSess
             /\ IF got /\ newTokens.val.refreshToken # tGet[g].rt
                THEN \E iv \in IVs :
                       tStore' = [tStore EXCEPT ![k] =
                                     EncryptRefreshToken(cKey, iv, newTokens.val.refreshToken)]
                ELSE UNCHANGED tStore
             /\ tLast' = [NoCall EXCEPT !.op = "refreshed", !.key = k, !.hasSession = TRUE,
                                        !.rt = tGet[g].rt, !.hasId = (answer.idt # NoTok),
                                        !.grant = IF answer.ok THEN "ok" ELSE "fail",
                                        !.issued = answer.rt,
                                        !.ret = IF got THEN "token" ELSE "null",
                                        !.tok = IF got THEN newTokens.val.accessToken ELSE NoTok]
    /\ tGet' = [tGet EXCEPT ![g] = IdleGet]
    /\ UNCHANGED <<outsideToken, cKey, tNow, tConfigured, tOps, tRequests, tInv>>

NextToken ==
    \/ TokenClock
    \/ \E k \in TokenKeys \cup {NoKey}, a \in BOOLEAN, r \in {<<>>, <<0>>, <<1>>},
          i \in BOOLEAN, ses \in BOOLEAN : InitializeUserTokens(k, a, r, i, ses)
    \/ \E k \in TokenKeys \cup {NoKey}, ses \in BOOLEAN : InvalidateTokens(k, ses)
    \/ \E g \in GetSlots, k \in TokenKeys \cup {NoKey}, ses \in BOOLEAN :
          GetValidAccessToken(g, k, ses)
    \/ \E g \in GetSlots : RefreshDone(g)

SpecToken == InitToken /\ [][NextToken]_vars

----------------------------------------------------------------------------
(* Onboarding a mailbox: mailService.verifyAndEnableMailbox(email) and
   StalwartService.preDeployOidcUserWithAdminToken, against the mail backend *)

\* The texts the error message of transporter.verify() is searched for. A
\* message is the set of these texts it includes.
ConnectionTexts == {"Greeting never received", "ECONNREFUSED", "ETIMEDOUT", "ENOTFOUND", "timeout"}
TlsTexts == {"TLS", "handshake", "eof"}
CredentialTexts == {"535", "Authentication credentials invalid"}
OAuthTexts == {"OAuth", "OAUTHBEARER", "XOAUTH2"}

\* The error messages tried: one of each text, none of them, and messages that
\* include texts of two classes.
HandshakeErrors ==
    {{t} : t \in ConnectionTexts \cup {"TLS", "535", "OAuth"}} \cup
    {{}, {"TLS", "timeout"}, {"535", "ECONNREFUSED"}, {"OAuth", "TLS"}}

\* Variant: a message that includes a TLS text is a TLS failure, whatever else
\* it includes.
handshakeClassTlsFirst(msg) ==
    IF msg \cap TlsTexts # {} THEN "tls"
    ELSE IF msg \cap ConnectionTexts # {} THEN "connection"
    ELSE IF msg \cap CredentialTexts # {} THEN "credential"
    ELSE IF msg \cap OAuthTexts # {} THEN "oauth"
    ELSE "other"

\* The branch the catch block of the handshake takes for an error message.
handshakeClass(msg) ==
    IF msg \cap ConnectionTexts # {} THEN "connection"
    ELSE IF msg \cap TlsTexts # {} THEN "tls"
    ELSE IF msg \cap CredentialTexts # {} THEN "credential"
    ELSE IF msg \cap OAuthTexts # {} THEN "oauth"
    ELSE "other"

\* Variant: a mailbox that is not found is an error.
StalwartVerifyAndEnableMailboxStrict(exists) ==
    IF exists THEN [success |-> TRUE, kind |-> "verified"]
    ELSE [success |-> FALSE, kind |-> "failed"]

\* StalwartService.verifyAndEnableMailbox(email) as a function of what
\* verifyMailboxExists returned.
StalwartVerifyAndEnableMailbox(exists) ==
    IF exists THEN [success |-> TRUE, kind |-> "verified"]
    ELSE [success |-> TRUE, kind |-> "created on first authentication"]

\* MailcowVerificationService.verifyAndEnableMailbox(email) as a function of
\* what verifyMailboxExists returned.
MailcowVerifyAndEnableMailbox(exists) ==
    IF exists THEN [success |-> TRUE, kind |-> "verified"]
    ELSE [success |-> FALSE, kind |-> "failed"]

\* mailService.verifyAndEnableMailbox(email): the call goes to the selected
\* provider.
MailServiceVerifyAndEnableMailbox(p, exists) ==
    IF p = "stalwart" THEN StalwartVerifyAndEnableMailbox(exists)
    ELSE MailcowVerifyAndEnableMailbox(exists)

\* verifyMailboxExists(key) sends a lookup only for a key of the form
\* name@domain; the username of the IdP may or may not have that form.
HasDomain(name) == name = "email"

outsideOnboard == <<attrs, kcUsers, sogoRows, provider, daemonVars, loopVars, histVars, mailVars,
                    cryptVars, tokenVars>>

InitOnboard ==
    /\ ReconcilerIdle
    /\ provider \in {"stalwart", "mailcow"}
    /\ mailboxes \in SUBSET Users
    /\ faults = 0
    /\ mConfigured \in BOOLEAN
    /\ mCall = [c \in Slots |-> IdleCall]
    /\ mRes = [c \in Slots |-> NoResult]
    /\ mLast = [u \in Users |-> FALSE]
    /\ mCalls = 0
    /\ mCreates = 0
    /\ CryptIdle
    /\ TokenIdle
    /\ OnboardIdle

\* Variant: only a principal the lookup found is reported as discovered.
preDeployDiscoveredVerifiedOnly(kind) == kind \in {"discovered", "created"}

\* The return statements of the pre-deploy methods that say discovered: true:
\* the principal was found by the poll, found after the explicit creation, or
\* (token exchange) taken to exist because the mail was accepted.
preDeployDiscovered(kind) == kind \in {"discovered", "created", "assumed"}

\* The call in flight returns.
OnboardReturn(run, success, kind) ==
    /\ oRes' = [valid |-> TRUE, success |-> success, discovered |-> preDeployDiscovered(kind),
                kind |-> kind, run |-> run]
    /\ oRun' = NoRun

\* verifyAndEnableMailbox(email) up to the first await of verifyMailboxExists:
\* without configuration the mailbox counts as not existing, otherwise the
\* lookup is sent.
VerifyAndEnableCall(u) ==
    /\ oRun.pc = "idle"
    /\ oRuns < MaxRuns
    /\ oRuns' = oRuns + 1
    /\ LET run == [NoRun EXCEPT !.op = "verify", !.user = u, !.absent = (u \notin mailboxes),
                                !.polls = 1]
       IN  IF ~mConfigured
           THEN LET res == MailServiceVerifyAndEnableMailbox(provider, FALSE)
                IN  /\ oRes' = [valid |-> TRUE, success |-> res.success, discovered |-> FALSE,
                                kind |-> res.kind, run |-> run]
                    /\ UNCHANGED oRun
           ELSE /\ oRun' = [run EXCEPT !.pc = "lookup", !.lookups = 1]
                /\ UNCHANGED oRes
    /\ UNCHANGED <<outsideOnboard, mailboxes>>

\* The lookup answered: verifyAndEnableMailbox returns.
VerifyAndEnableLookupDone ==
    /\ oRun.op = "verify"
    /\ oRun.pc = "lookup"
    /\ \E a \in LookupAnswers(provider, oRun.user) :
         LET res == MailServiceVerifyAndEnableMailbox(provider, a.r = "found")
         IN  /\ oRes' = [valid |-> TRUE, success |-> res.success, discovered |-> FALSE,
                         kind |-> res.kind, run |-> [oRun EXCEPT !.lookup = a.r]]
             /\ oRun' = NoRun
    /\ UNCHANGED <<outsideOnboard, mailboxes, oRuns>>

\* preDeployOidcUserWithAdminToken up to its first await: a failure without
\* the client's or the IdP's settings, otherwise the user is fetched from the
\* IdP.
PreDeployCall(u, keycloakConfigured) ==
    /\ provider = "stalwart"
    /\ oRun.pc = "idle"
    /\ oRuns < MaxRuns
    /\ oRuns' = oRuns + 1
    /\ LET run == [NoRun EXCEPT !.op = "preDeploy", !.user = u, !.absent = (u \notin mailboxes)]
       IN  IF ~mConfigured
           THEN OnboardReturn(run, FALSE, "not_configured")
           ELSE IF ~keycloakConfigured
           THEN OnboardReturn(run, FALSE, "configuration missing")
           ELSE /\ oRun' = [run EXCEPT !.pc = "userinfo"]
                /\ UNCHANGED oRes
    /\ UNCHANGED <<outsideOnboard, mailboxes>>

\* The IdP answered the fetch of the user: a failure unless the answer is 200
\* with a username and a password was given; then the password grant is sent.
PreDeployUserInfoDone ==
    /\ oRun.op = "preDeploy"
    /\ oRun.pc = "userinfo"
    /\ \E answer \in {"throw", "not 200", "no username", "plain", "email"}, userPassword \in BOOLEAN :
         IF answer = "throw" THEN OnboardReturn(oRun, FALSE, "exception")
         ELSE IF answer = "not 200" THEN OnboardReturn(oRun, FALSE, "no user info")
         ELSE IF answer = "no username" THEN OnboardReturn(oRun, FALSE, "no username")
         ELSE IF ~userPassword THEN OnboardReturn(oRun, FALSE, "password_required")
         ELSE /\ oRun' = [oRun EXCEPT !.pc = "token", !.name = answer]
              /\ UNCHANGED oRes
    /\ UNCHANGED <<outsideOnboard, mailboxes, oRuns>>

\* The IdP answered the password grant: a failure without an access token or
\* without SMTP settings, otherwise the handshake with the mail backend starts.
PreDeployTokenDone ==
    /\ oRun.op = "preDeploy"
    /\ oRun.pc = "token"
    /\ \E answer \in {"throw", "no token", "token"}, smtpConfigured \in BOOLEAN :
         IF answer = "throw" THEN OnboardReturn(oRun, FALSE, "exception")
         ELSE IF answer = "no token" THEN OnboardReturn(oRun, FALSE, "no token")
         ELSE IF ~smtpConfigured THEN OnboardReturn(oRun, FALSE, "SMTP not configured")
         ELSE /\ oRun' = [oRun EXCEPT !.pc = "handshake"]
              /\ UNCHANGED oRes
    /\ UNCHANGED <<outsideOnboard, mailboxes, oRuns>>

\* transporter.verify() ended. When the mail backend saw the token it may
\* have put the identity into its directory. An error of the connection class
\* makes the run return; after success or another error the wait starts.
PreDeployHandshakeDone ==
    /\ oRun.op = "preDeploy"
    /\ oRun.pc = "handshake"
    /\ \/ /\ \E d \in BOOLEAN :
               mailboxes' = IF d THEN mailboxes \cup {oRun.user} ELSE mailboxes
          /\ oRun' = [oRun EXCEPT !.pc = "wait", !.hs = "ok", !.auth = TRUE]
          /\ UNCHANGED oRes
       \/ \E msg \in HandshakeErrors :
            IF handshakeClass(msg) = "connection"
            THEN /\ OnboardReturn([oRun EXCEPT !.hs = "error", !.err = msg], FALSE, "connection")
                 /\ UNCHANGED mailboxes
            ELSE /\ \E d \in BOOLEAN :
                      mailboxes' = IF d /\ msg \cap ConnectionTexts = {}
                                   THEN mailboxes \cup {oRun.user} ELSE mailboxes
                 /\ oRun' = [oRun EXCEPT !.pc = "wait", !.hs = "error", !.err = msg]
                 /\ UNCHANGED oRes
    /\ UNCHANGED <<outsideOnboard, oRuns>>

\* The five seconds are over: verifyMailboxExists(email) sends its lookup.
PreDeployWaitDone ==
    /\ oRun.op = "preDeploy"
    /\ oRun.pc = "wait"
    /\ oRun' = [oRun EXCEPT !.pc = "verifyEmail", !.waits = @ + 1, !.polls = @ + 1,
                            !.lookups = @ + 1]
    /\ UNCHANGED <<outsideOnboard, mailboxes, oRes, oRuns>>

\* Variant: the principal is created whatever the handshake did.
PreDeployNotFoundAnyway(run) ==
    /\ oRun' = [run EXCEPT !.pc = "create", !.creates = @ + 1]
    /\ UNCHANGED oRes

\* The principal was not found: after a handshake that succeeded the
\* principal is created explicitly, otherwise the run returns a failure.
PreDeployNotFound(run) ==
    IF run.auth
    THEN /\ oRun' = [run EXCEPT !.pc = "create", !.creates = @ + 1]
         /\ UNCHANGED oRes
    ELSE OnboardReturn(run, FALSE, "not discovered")

\* The lookup of verifyMailboxExists answered. A principal that exists ends
\* the run; after the lookup under the email, verifyMailboxExists is called
\* with the username, which sends a lookup only for a name@domain.
PreDeployVerifyDone ==
    /\ oRun.op = "preDeploy"
    /\ oRun.pc \in {"verifyEmail", "verifyName"}
    /\ \E a \in LookupAnswers("stalwart", oRun.user) :
         LET run == [oRun EXCEPT !.lookup = a.r] IN
         IF a.r = "found" THEN OnboardReturn(run, TRUE, "discovered")
         ELSE IF oRun.pc = "verifyEmail"
         THEN IF HasDomain(oRun.name)
              THEN /\ oRun' = [run EXCEPT !.pc = "verifyName", !.polls = @ + 1, !.lookups = @ + 1]
                   /\ UNCHANGED oRes
              ELSE PreDeployNotFound([run EXCEPT !.polls = @ + 1])
         ELSE PreDeployNotFound(run)
    /\ UNCHANGED <<outsideOnboard, mailboxes, oRuns>>

\* createPrincipal answered: after a 2xx the principal exists and is looked
\* up again, otherwise the run returns a failure.
PreDeployCreateDone ==
    /\ oRun.op = "preDeploy"
    /\ oRun.pc = "create"
    /\ \/ /\ mailboxes' = mailboxes \cup {oRun.user}
          /\ oRun' = [oRun EXCEPT !.pc = "reverify", !.polls = @ + 1, !.lookups = @ + 1]
          /\ UNCHANGED oRes
       \/ /\ OnboardReturn(oRun, FALSE, "not discovered")
          /\ UNCHANGED mailboxes
    /\ UNCHANGED <<outsideOnboard, oRuns>>

\* The lookup after the explicit creation answered.
PreDeployReverifyDone ==
    /\ oRun.op = "preDeploy"
    /\ oRun.pc = "reverify"
    /\ \E a \in LookupAnswers("stalwart", oRun.user) :
         IF a.r = "found" THEN OnboardReturn(oRun, TRUE, "created")
         ELSE OnboardReturn(oRun, FALSE, "not discovered")
    /\ UNCHANGED <<outsideOnboard, mailboxes, oRuns>>

\* preDeployOidcUserWithPassword up to its first await: a failure without the
\* client's or the IdP's settings, otherwise the password grant is sent.
PreDeployPasswordCall(u, keycloakConfigured) ==
    /\ provider = "stalwart"
    /\ oRun.pc = "idle"
    /\ oRuns < MaxRuns
    /\ oRuns' = oRuns + 1
    /\ LET run == [NoRun EXCEPT !.op = "preDeployPassword", !.user = u,
                                !.absent = (u \notin mailboxes)]
       IN  IF ~mConfigured
           THEN OnboardReturn(run, FALSE, "not_configured")
           ELSE IF ~keycloakConfigured
           THEN OnboardReturn(run, FALSE, "configuration missing")
           ELSE /\ oRun' = [run EXCEPT !.pc = "token"]
                /\ UNCHANGED oRes
    /\ UNCHANGED <<outsideOnboard, mailboxes>>

\* The IdP answered the password grant of the password variant.
PreDeployPasswordTokenDone ==
    /\ oRun.op = "preDeployPassword"
    /\ oRun.pc = "token"
    /\ \E answer \in {"throw", "not 200", "no token", "token"}, smtpConfigured \in BOOLEAN :
         IF answer = "throw" THEN OnboardReturn(oRun, FALSE, "exception")
         ELSE IF answer \in {"not 200", "no token"} THEN OnboardReturn(oRun, FALSE, "no token")
         ELSE IF ~smtpConfigured THEN OnboardReturn(oRun, FALSE, "SMTP not configured")
         ELSE /\ oRun' = [oRun EXCEPT !.pc = "handshake"]
              /\ UNCHANGED oRes
    /\ UNCHANGED <<outsideOnboard, mailboxes, oRuns>>

\* transporter.verify() of the password variant ended: the run goes on after
\* success and after an error whose message names OAuth, OAUTHBEARER or
\* XOAUTH2; any other error makes it return a failure.
PreDeployPasswordHandshakeDone ==
    /\ oRun.op = "preDeployPassword"
    /\ oRun.pc = "handshake"
    /\ \/ /\ \E d \in BOOLEAN :
               mailboxes' = IF d THEN mailboxes \cup {oRun.user} ELSE mailboxes
          /\ oRun' = [oRun EXCEPT !.pc = "wait", !.hs = "ok", !.auth = TRUE]
          /\ UNCHANGED oRes
       \/ \E msg \in HandshakeErrors :
            /\ \E d \in BOOLEAN :
                 mailboxes' = IF d /\ msg \cap ConnectionTexts = {}
                              THEN mailboxes \cup {oRun.user} ELSE mailboxes
            /\ IF msg \cap OAuthTexts # {}
               THEN /\ oRun' = [oRun EXCEPT !.pc = "wait", !.hs = "error", !.err = msg]
                    /\ UNCHANGED oRes
               ELSE OnboardReturn([oRun EXCEPT !.hs = "error", !.err = msg], FALSE,
                                  "authentication failed")
    /\ UNCHANGED <<outsideOnboard, oRuns>>

\* preDeployStalwartViaTokenExchange up to its first await: a failure without
\* the client's or the IdP's settings or without an access token, otherwise
\* the token exchange is sent.
PreDeployExchangeCall(u, keycloakConfigured, hasToken) ==
    /\ provider = "stalwart"
    /\ oRun.pc = "idle"
    /\ oRuns < MaxRuns
    /\ oRuns' = oRuns + 1
    /\ LET run == [NoRun EXCEPT !.op = "preDeployExchange", !.user = u,
                                !.absent = (u \notin mailboxes)]
       IN  IF ~mConfigured
           THEN OnboardReturn(run, FALSE, "not_configured")
           ELSE IF ~keycloakConfigured \/ ~hasToken
           THEN OnboardReturn(run, FALSE, "no token")
           ELSE /\ oRun' = [run EXCEPT !.pc = "token"]
                /\ UNCHANGED oRes
    /\ UNCHANGED <<outsideOnboard, mailboxes>>

\* The IdP answered the token exchange: without a 200 and an access token (or
\* when the request threw) the run returns a failure, otherwise sendMail
\* sends the welcome mail with the exchanged token; sendMail itself returns a
\* failure at once without SMTP settings.
PreDeployExchangeTokenDone ==
    /\ oRun.op = "preDeployExchange"
    /\ oRun.pc = "token"
    /\ \E answer \in {"throw", "not 200", "no token", "token"}, smtpConfigured \in BOOLEAN :
         IF answer # "token" THEN OnboardReturn(oRun, FALSE, "no token")
         ELSE IF ~smtpConfigured THEN OnboardReturn(oRun, FALSE, "send failed")
         ELSE /\ oRun' = [oRun EXCEPT !.pc = "handshake"]
              /\ UNCHANGED oRes
    /\ UNCHANGED <<outsideOnboard, mailboxes, oRuns>>

\* transporter.sendMail() of the token-exchange variant ended: after any
\* error the run returns a failure, after success the wait starts.
PreDeployExchangeSendDone ==
    /\ oRun.op = "preDeployExchange"
    /\ oRun.pc = "handshake"
    /\ \/ /\ \E d \in BOOLEAN :
               mailboxes' = IF d THEN mailboxes \cup {oRun.user} ELSE mailboxes
          /\ oRun' = [oRun EXCEPT !.pc = "wait", !.hs = "ok", !.auth = TRUE]
          /\ UNCHANGED oRes
       \/ \E msg \in HandshakeErrors :
            /\ \E d \in BOOLEAN :
                 mailboxes' = IF d /\ msg \cap ConnectionTexts = {}
                              THEN mailboxes \cup {oRun.user} ELSE mailboxes
            /\ OnboardReturn([oRun EXCEPT !.hs = "error", !.err = msg], FALSE, "send failed")
    /\ UNCHANGED <<outsideOnboard, oRuns>>

\* The two seconds of the password and token-exchange variants are over:
\* verifyMailboxExists(email) sends its lookup.
PreDeployShortWaitDone ==
    /\ oRun.op \in {"preDeployPassword", "preDeployExchange"}
    /\ oRun.pc = "wait"
    /\ oRun' = [oRun EXCEPT !.pc = "verifyEmail", !.waits = @ + 1, !.polls = @ + 1,
                            !.lookups = @ + 1]
    /\ UNCHANGED <<outsideOnboard, mailboxes, oRes, oRuns>>

\* The lookup of the password variant answered: the run returns discovered
\* or not discovered, with no second lookup and no creation.
PreDeployPasswordVerifyDone ==
    /\ oRun.op = "preDeployPassword"
    /\ oRun.pc = "verifyEmail"
    /\ \E a \in LookupAnswers("stalwart", oRun.user) :
         IF a.r = "found" THEN OnboardReturn([oRun EXCEPT !.lookup = a.r], TRUE, "discovered")
         ELSE OnboardReturn([oRun EXCEPT !.lookup = a.r], FALSE, "not discovered")
    /\ UNCHANGED <<outsideOnboard, mailboxes, oRuns>>

\* The lookup of the token-exchange variant answered: the run returns success
\* whether or not the principal was found.
PreDeployExchangeVerifyDone ==
    /\ oRun.op = "preDeployExchange"
    /\ oRun.pc = "verifyEmail"
    /\ \E a \in LookupAnswers("stalwart", oRun.user) :
         IF a.r = "found" THEN OnboardReturn([oRun EXCEPT !.lookup = a.r], TRUE, "discovered")
         ELSE OnboardReturn([oRun EXCEPT !.lookup = a.r], TRUE, "assumed")
    /\ UNCHANGED <<outsideOnboard, mailboxes, oRuns>>

NextOnboard ==
    \/ \E u \in Users : VerifyAndEnableCall(u)
    \/ VerifyAndEnableLookupDone
    \/ \E u \in Users, k \in BOOLEAN : PreDeployCall(u, k)
    \/ PreDeployUserInfoDone
    \/ PreDeployTokenDone
    \/ PreDeployHandshakeDone
    \/ PreDeployWaitDone
    \/ PreDeployVerifyDone
    \/ PreDeployCreateDone
    \/ PreDeployReverifyDone
    \/ \E u \in Users, k \in BOOLEAN : PreDeployPasswordCall(u, k)
    \/ PreDeployPasswordTokenDone
    \/ PreDeployPasswordHandshakeDone
    \/ \E u \in Users, k, t \in BOOLEAN : PreDeployExchangeCall(u, k, t)
    \/ PreDeployExchangeTokenDone
    \/ PreDeployExchangeSendDone
    \/ PreDeployShortWaitDone
    \/ PreDeployPasswordVerifyDone
    \/ PreDeployExchangeVerifyDone

SpecOnboard == InitOnboard /\ [][NextOnboard]_vars


----------------------------------------------------------------------------
(* Claims about the reconciler, checked under Spec *)

BackendRank(b) == CASE b = "stalwart" -> 1 [] b = "keycloak" -> 2 [] b = "webmail" -> 3

C2_EligibleIsDeleted ==
    \A u \in Users :
        ( /\ <<"tick", u, "row">> \in probed
          /\ attrs[u].enabled
          /\ attrs[u].created # 0
          /\ ageMinutes(u) > maxSessionDurationMin )
        => <<"tick", u>> \in delStarted

C5_Start ==
    [][\A s \in Callers :
        /\ (startPc'[s] = "true" /\ startPc[s] # "true") =>
              /\ maxSessionDurationMin > 0
              /\ connOk'[s] = "ok"
              /\ running'
              /\ timer' # "null" /\ timer' \in liveTimers' /\ timer' \notin liveTimers
        /\ (startPc[s] = "idle" /\ startPc'[s] # "idle" /\ maxSessionDurationMin <= 0) =>
              /\ startPc'[s] = "false"
              /\ UNCHANGED <<running, timer, liveTimers, isTicking, lastRun, tick, stats, inflight>>
        /\ (connOk'[s] = "fail" /\ connOk[s] # "fail") =>
              /\ startPc'[s] = "false"
              /\ UNCHANGED <<running, timer, liveTimers, isTicking, lastRun, tick, stats, inflight>>
      ]_vars

\* C5 witness: start() has returned true: the daemon runs and its interval is live.
C5_Witness ==
    \E s \in Callers : startPc[s] = "true" /\ connOk[s] = "ok" /\ running /\ timer \in liveTimers

\* A step in which tick() is triggered: by the interval, by a direct call, or
\* by start().
TickTriggered ==
    \/ triggers' = triggers + 1
    \/ \E s \in Callers : startPc[s] = "check" /\ startPc'[s] = "true"

PassFinished == pass.pc = "exited" /\ pass.idx > Len(pass.list) /\ pass.list # <<>>

C8_PassWaitsForTick ==
    ~(isTicking /\ pass.pc \in {"list", "detail", "delete"})

\* C9 (as claimed): deleteUser returns success exactly when the IdP deletion
\* succeeded and the mail-backend deletion succeeded (or was not due, the
\* provider not being stalwart), whatever the webmail-store deletion did.
C9_OverallSuccess ==
    \A w \in Workers :
        returned[w].valid =>
            (returned[w].success <=>
                (returned[w].kc = "ok" /\ returned[w].st \in {"null", "deleted", "notfound"}))


\* C23 (as claimed): once deleteUser has returned with the stalwart provider,
\* the identity it was called for is not gone from the IdP while the mail
\* backend still holds its mailbox: the IdP deletion succeeded only after the
\* mail-backend deletion deleted the mailbox or found none.
C23_NoStrandedMailbox ==
    \A w \in Workers :
        (returned[w].valid /\ provider = "stalwart" /\ returned[w].kc = "ok") =>
            /\ returned[w].st \in {"deleted", "notfound"}
            /\ returned[w].user \notin mailboxes

TickBodyThrows ==
    /\ tick.pc = "detail"
    /\ tick' # tick
    /\ (faults' # faults \/ tick.list[tick.idx] \notin kcUsers)

CallsBeforeReturn ==
    IF provider = "stalwart"
    THEN {<<"stalwart", "keycloak", "webmail">>, <<"stalwart", "stalwart", "keycloak", "webmail">>}
    ELSE {<<"keycloak", "webmail">>}

C25_FailedDeletionStaysListed ==
    \A w \in Workers :
        LET u == returned[w].user IN
        ( /\ returned[w].valid
          /\ ~returned[w].success
          /\ \/ (provider = "stalwart" /\ u \in mailboxes)
             \/ Email(u) \in sogoRows )
        => u \in kcUsers


\* C26 (as claimed): a deleteUser whose webmail-store delete under the email
\* reported zero rows has called the store once more, under the username, when
\* the two identifiers differ.
C26_ZeroRowsRetried ==
    \A w \in Workers :
        LET u == returned[w].user IN
        (returned[w].valid /\ returned[w].rows = "zero" /\ Email(u) # Username(u))
        => returned[w].wmCalls = <<Email(u), Username(u)>>

C38_OneForcedPass ==
    /\ \A u \in Users : Cardinality({h \in Handlers : <<h, u>> \in delStarted}) <= 1
    /\ ~ShutdownAlive => \A h \in Handlers : del[h].pc = "none"

\* C37 (as claimed): at most one interval timer exists at any time, also when
\* start() is called while another start() awaits the connectivity check, and
\* once stop() has cleared `running` no interval is left to fire.
C37_OneTimer ==
    /\ Cardinality(liveTimers) <= 1
    /\ ~running => liveTimers = {}


----------------------------------------------------------------------------
(* Claims about deleteMailbox, checked under SpecMail *)

\* The request in slot c returns in this step.
MailReturns(c) == mCall[c].pc # "idle" /\ mCall'[c].pc = "idle"

\* C10: a deleteMailbox(email) that returns "deleted" has issued the delete
\* call and leaves no mailbox behind; and a deleteMailbox(email) called when
\* the mailbox's latest event was such a deletion, with no creation up to its
\* return and every request of it answered by the backend, returns success
\* with the "not found (may already be deleted)" message and has issued no
\* delete call.
C10_DeleteTwice ==
    [][\A c \in Slots :
        MailReturns(c) =>
            LET k == mCall[c].key IN
            /\ mRes'[c].kind = "deleted" =>
                  (mRes'[c].success /\ mRes'[c].delIssued /\ k \notin mailboxes')
            /\ (mRes'[c].after /\ mRes'[c].clean) =>
                  /\ mRes'[c].success
                  /\ mRes'[c].kind = "notfound"
                  /\ ~mRes'[c].delIssued
                  /\ mailboxes' = mailboxes
      ]_vars

\* C10 witness: for one mailbox a first request has returned "deleted" and the
\* next one, made after it, has returned the "not found" success.
C10_Witness ==
    \E c, d \in Slots :
        /\ c # d
        /\ mRes[c].valid /\ mRes[c].kind = "deleted"
        /\ mRes[d].valid /\ mRes[d].key = mRes[c].key
        /\ mRes[d].after /\ mRes[d].clean
        /\ mRes[d].success /\ mRes[d].kind = "notfound"


\* C11 (as claimed): a stalwart deleteMailbox to which the backend answered 404,
\* to the lookup or to the delete call, has returned success with the "not
\* found (may already be deleted)" message.
C11_NotFoundIsSuccess ==
    \A c \in Slots :
        ( /\ mRes[c].valid
          /\ provider = "stalwart"
          /\ (mRes[c].lookup = "404" \/ mRes[c].delr = "404") )
        => (mRes[c].success /\ mRes[c].kind = "notfound")

\* C12 (as claimed): a deleteMailbox whose lookup failed for another reason
\* than not-found has returned a failure, with either provider.
C12_LookupFailureIsFailure ==
    \A c \in Slots :
        (mRes[c].valid /\ mRes[c].lookup = "error")
        => (~mRes[c].success /\ mRes[c].kind # "notfound")


----------------------------------------------------------------------------
(* Claims about the token encryption, checked under SpecCrypt *)

ImplementationResult(p, res) ==
    IF p = "stalwart" THEN StalwartDeleteMailbox(mConfigured, res.lookup, res.delr)
    ELSE MailcowDeleteMailbox(mConfigured, res.lookup, res.delr)

TokenCallReturned(op) ==
    tOps' = tOps + 1 /\ tGet' = tGet /\ tLast'.op = op

\* A step in which getValidAccessToken sent a refresh grant from slot g.
GrantSent(g) ==
    tOps' = tOps + 1 /\ tGet[g].pc = "idle" /\ tGet'[g].pc = "refresh"

\* A step in which the refresh grant of slot g was answered.
GrantAnswered(g) ==
    tGet[g].pc = "refresh" /\ tGet'[g].pc = "idle"

\* The session holds an access token for key k with more than 60 seconds left.
CachedFor(k, seconds) ==
    /\ tSess[k].oid # 0
    /\ tSess[k].access # NoTok
    /\ tSess[k].access.exp - ClockTimes[tNow] > seconds

\* C13: when the cached access token has more than 60 seconds left,
\* getValidAccessToken returns that token, sends no request to the IdP, and
\* leaves the session tokens and the refresh-token store as they were.
C13_ValidTokenNoRefresh ==
    [][ /\ \A g \in GetSlots : GrantSent(g) => ~CachedFor(tGet'[g].key, 60)
        /\ (/\ TokenCallReturned("get")
            /\ tLast'.key # NoKey
            /\ tLast'.hasSession
            /\ CachedFor(tLast'.key, 60))
           => /\ tLast'.ret = "token"
              /\ tLast'.tok = tSess[tLast'.key].access
              /\ tRequests' = tRequests
              /\ tSess' = tSess
              /\ tStore' = tStore ]_vars

\* C13 witness: a call returned the cached token with 61 seconds left while a
\* refresh token was on file and the IdP had not been asked.
C13_Witness ==
    /\ tLast.op = "get"
    /\ tLast.ret = "token"
    /\ tLast.tok.exp - ClockTimes[tNow] = 61
    /\ ~tStore[tLast.key].null
    /\ tRequests = 0

\* C14: getValidAccessToken returns null when the cached token needs a refresh
\* and no refresh token is stored, and when the refresh grant fails; the
\* session tokens and the stored refresh token stay as they were.
C14_NullWhenNoRefresh ==
    [][ /\ (/\ TokenCallReturned("get")
            /\ tLast'.key # NoKey
            /\ tLast'.hasSession
            /\ tSess[tLast'.key].access # NoTok
            /\ ~CachedFor(tLast'.key, 60)
            /\ tStore[tLast'.key].null)
           => /\ tLast'.ret = "null"
              /\ tRequests' = tRequests
              /\ tSess' = tSess
              /\ tStore' = tStore
        /\ \A g \in GetSlots :
             (GrantAnswered(g) /\ tLast'.grant = "fail")
             => /\ tLast'.ret = "null"
                /\ tSess' = tSess
                /\ tStore' = tStore ]_vars

\* C14 witness: a refresh grant failed, the call returned null, and the
\* session entry and the stored refresh token are still there.
C14_Witness ==
    /\ tLast.op = "refreshed"
    /\ tLast.grant = "fail"
    /\ tLast.ret = "null"
    /\ tSess[tLast.key].access # NoTok
    /\ DecryptRefreshToken(cKey, tStore[tLast.key]) = Val(tLast.rt)

\* What initializeUserTokens does when it goes on, for the call recorded in
\* tLast': the session entry of the key holds the access and the ID token, a
\* supplied refresh token is in the map under the same key, encrypted, and the
\* call returns true.
InitializeStored ==
    /\ tLast'.ret = "true"
    /\ tSess'[tLast'.key].access = tLast'.tok
    /\ tSess'[tLast'.key].idt = (IF tLast'.hasId THEN tLast'.tok ELSE NoTok)
    /\ tLast'.rt # <<>> =>
         /\ ~tStore'[tLast'.key].null
         /\ DecryptRefreshToken(cKey, tStore'[tLast'.key]) = Val(tLast'.rt)
    /\ tLast'.rt = <<>> => tStore' = tStore

\* What initializeUserTokens does when it gives up.
InitializeRefused ==
    /\ tLast'.ret = "false"
    /\ tSess' = tSess
    /\ tStore' = tStore

\* C15 as stated: initializeUserTokens returns false and changes nothing when
\* the identity key or the access token is missing; otherwise it stores the
\* tokens and returns true.
C15_InitializeAsStated ==
    [][ TokenCallReturned("initialize")
        => IF tLast'.key = NoKey \/ tLast'.tok = NoTok
           THEN InitializeRefused
           ELSE InitializeStored ]_vars

\* C15: initializeUserTokens returns false and changes nothing when the
\* identity key, the access token or the session is missing; otherwise it
\* stores the access and ID tokens in the session under the key, the encrypted
\* refresh token (when one is supplied) in the map under the same key, and
\* returns true.
C15_InitializeWithSession ==
    [][ TokenCallReturned("initialize")
        => IF tLast'.key = NoKey \/ tLast'.tok = NoTok \/ ~tLast'.hasSession
           THEN InitializeRefused
           ELSE InitializeStored ]_vars

\* C15 witness: a call with key, access token, ID token, refresh token and
\* session returned true and the refresh token is on file.
C15_Witness ==
    /\ tLast.op = "initialize"
    /\ tLast.ret = "true"
    /\ tLast.hasId
    /\ tLast.rt # <<>>
    /\ tSess[tLast.key].access = tLast.tok
    /\ DecryptRefreshToken(cKey, tStore[tLast.key]) = Val(tLast.rt)

\* C16: invalidateTokens(key, session) removes the session entry and the
\* stored refresh token of the key and returns true, whether or not something
\* was cached; from then on, until initializeUserTokens is called again for
\* the key, getValidAccessToken for the key returns null and asks the IdP
\* nothing.
C16_InvalidateThenNull ==
    [][ /\ (/\ TokenCallReturned("invalidate")
            /\ tLast'.key # NoKey
            /\ tLast'.hasSession)
           => /\ tLast'.ret = "true"
              /\ tSess'[tLast'.key] = NoEntry
              /\ tStore'[tLast'.key].null
        /\ (/\ TokenCallReturned("get")
            /\ tLast'.key # NoKey
            /\ tInv[tLast'.key])
           => tLast'.ret = "null" /\ tRequests' = tRequests
        /\ \A g \in GetSlots : GrantSent(g) => ~tInv[tGet'[g].key] ]_vars

\* C16 witness: tokens were cached for the key, invalidateTokens removed them,
\* and a later getValidAccessToken with the session returned null.
C16_Witness ==
    /\ tLast.op = "get"
    /\ tLast.key # NoKey
    /\ tLast.hasSession
    /\ tLast.ret = "null"
    /\ tInv[tLast.key]
    /\ tIssued > 0

\* C29: when the refresh grant succeeds, getValidAccessToken returns the newly
\* issued access token; the session entry the call read, when the session
\* still holds it, takes the new access token and, when one was issued, the
\* new ID token; the stored refresh token is replaced by the one the IdP
\* issued exactly when it issued one that differs from the one sent, and is
\* kept otherwise.
C29_RefreshSuccessUpdates ==
    [][ \A g \in GetSlots :
          (GrantAnswered(g) /\ tLast'.grant = "ok")
          => LET k == tGet[g].key
                 new == [n |-> tIssued', exp |-> ClockTimes[tNow] + TokenLifetime]
             IN  /\ tIssued' = tIssued + 1
                 /\ tLast'.ret = "token"
                 /\ tLast'.tok = new
                 /\ tSess[k].oid = tGet[g].oid
                    => /\ tSess'[k].access = new
                       /\ tSess'[k].idt = (IF tLast'.hasId THEN new ELSE tSess[k].idt)
                       /\ tSess'[k].oid = tSess[k].oid
                 /\ tSess[k].oid # tGet[g].oid => tSess' = tSess
                 /\ IF tLast'.issued # <<>> /\ tLast'.issued # tGet[g].rt
                    THEN DecryptRefreshToken(cKey, tStore'[k]) = Val(tLast'.issued)
                    ELSE tStore' = tStore ]_vars

\* C29 witness: a refresh grant answered with a new access token, a new ID
\* token and a new refresh token; session and store hold them.
C29_Witness ==
    /\ tLast.op = "refreshed"
    /\ tLast.grant = "ok"
    /\ tLast.hasId
    /\ tLast.issued # <<>>
    /\ tLast.issued # tLast.rt
    /\ tSess[tLast.key].access = tLast.tok
    /\ tSess[tLast.key].idt = tLast.tok
    /\ DecryptRefreshToken(cKey, tStore[tLast.key]) = Val(tLast.issued)

\* C30: there is no single-flight guard on the refresh. A getValidAccessToken
\* call that finds the cached token with 60 seconds or less left, a stored
\* refresh token and the IdP settings never returns without having sent a
\* refresh grant, whether or not another call for the same key has a grant in
\* flight, and every call that sends a grant sends its own.
C30_EachCallSendsItsOwnGrant ==
    [][ /\ \A g \in GetSlots : GrantSent(g) => tRequests' = tRequests + 1
        /\ ~(/\ TokenCallReturned("get")
             /\ tLast'.key # NoKey
             /\ tLast'.hasSession
             /\ tSess[tLast'.key].access # NoTok
             /\ ~CachedFor(tLast'.key, 60)
             /\ ~tStore[tLast'.key].null
             /\ tConfigured) ]_vars

\* C30 witness: two calls for one key have each sent a refresh grant and
\* neither grant has been answered.
C30_Witness ==
    /\ \A g \in GetSlots : tGet[g].pc = "refresh"
    /\ \A g, h \in GetSlots : tGet[g].key = tGet[h].key /\ tGet[g].oid = tGet[h].oid
    /\ tRequests = 2

\* C31 (as claimed): from the completion of invalidateTokens(key, session)
\* until the next successful initializeUserTokens for the key, the store holds
\* no refresh token for the key and the session holds no tokens for it,
\* whatever refresh was in flight when the tokens were invalidated.
C31_NothingAfterInvalidate ==
    \A k \in TokenKeys :
        tInv[k] => (tStore[k].null /\ tSess[k] = NoEntry)

\* ---------------------------------------------------------------------------
\* Claims about onboarding a mailbox, checked under SpecOnboard
\* ---------------------------------------------------------------------------

\* The run that returned last was a pre-deploy run whose handshake failed with
\* an error of the connection-refused / timeout class.
ConnectionClassFailure(run) ==
    run.op = "preDeploy" /\ run.hs = "error" /\ run.err \cap ConnectionTexts # {}

\* C18: a pre-deploy run whose handshake fails with an error of the
\* connection-refused / timeout class returns a failure (discovered = false)
\* at once: it has not waited, has not called verifyMailboxExists and has not
\* called createPrincipal, and no run goes on after such an error.
C18_ConnectionErrorEndsRun ==
    /\ ~ConnectionClassFailure(oRun)
    /\ (oRes.valid /\ ConnectionClassFailure(oRes.run))
       => /\ ~oRes.success
          /\ ~oRes.discovered
          /\ oRes.run.waits = 0
          /\ oRes.run.polls = 0
          /\ oRes.run.lookups = 0
          /\ oRes.run.creates = 0

\* C18 witness: a run for an identity the directory does not hold got as far as
\* the handshake, which failed with a message of the connection class that
\* also includes a TLS text, and the run returned a failure.
C18_Witness ==
    /\ oRes.valid
    /\ ConnectionClassFailure(oRes.run)
    /\ oRes.run.err \cap TlsTexts # {}
    /\ oRes.run.absent
    /\ ~oRes.discovered

\* C19: on the stalwart backend verifyAndEnableMailbox makes no
\* principal-creation call, and when the mailbox is not found it returns
\* success = true with the "will be created on first authentication" message.
C19_StalwartVerifyNeverCreates ==
    /\ (oRun.op = "verify" /\ provider = "stalwart") => oRun.creates = 0
    /\ (oRes.valid /\ oRes.run.op = "verify" /\ provider = "stalwart")
       => /\ oRes.run.creates = 0
          /\ oRes.run.lookup # "found"
             => oRes.success /\ oRes.kind = "created on first authentication"

\* C19 witness: the directory does not hold the identity, the lookup answered
\* 404, and verifyAndEnableMailbox returned success with the directory as it
\* was.
C19_Witness ==
    /\ oRes.valid
    /\ oRes.run.op = "verify"
    /\ provider = "stalwart"
    /\ oRes.run.lookup = "404"
    /\ oRes.success
    /\ oRes.run.user \notin mailboxes

\* C20: on the mailcow backend verifyAndEnableMailbox creates the account when
\* it is absent: a call that found no mailbox returns success and the mailbox
\* exists afterwards.
C20_MailcowCreatesWhenAbsent ==
    (/\ oRes.valid
     /\ oRes.run.op = "verify"
     /\ provider = "mailcow"
     /\ oRes.run.lookup = "404")
    => oRes.success /\ oRes.run.user \in mailboxes

\* The three pre-deploy methods.
PreDeployOps == {"preDeploy", "preDeployPassword", "preDeployExchange"}

\* C32 (as claimed): in every pre-deploy variant a run whose handshake failed
\* with an error of the TLS-negotiation or credential-rejected class has
\* waited and polled verifyMailboxExists before it returned.
C32_TlsOrCredentialFailureGoesOn ==
    ( /\ oRes.valid
      /\ oRes.run.op \in PreDeployOps
      /\ oRes.run.hs = "error"
      /\ handshakeClass(oRes.run.err) \in {"tls", "credential"} )
    => (oRes.run.waits = 1 /\ oRes.run.polls >= 1)

\* C33 (as claimed): when the lookup of verifyMailboxExists(email) did not
\* find the principal, the run sends one more lookup, under the username.
C33_UsernameLookupFollows ==
    [][ ( /\ oRun.op = "preDeploy"
          /\ oRun.pc = "verifyEmail"
          /\ oRun' # oRun
          /\ ~(oRes'.valid /\ oRes'.kind = "discovered" /\ oRun' = NoRun) )
        => (oRun'.pc = "verifyName" /\ oRun'.lookups = oRun.lookups + 1)
      ]_vars

\* C34: within one pre-deploy run createPrincipal is called at most once, and
\* only after a handshake that succeeded, after the wait, and after the
\* verification lookup answered that the principal was not found; a run whose
\* handshake failed never calls it, and no variant other than the admin-token
\* one calls it at all.
C34_CreateOnceAfterVerifiedAbsence ==
    /\ \A run \in {oRun, oRes.run} :
          /\ run.creates <= 1
          /\ run.creates = 1 =>
                /\ run.op = "preDeploy"
                /\ run.hs = "ok" /\ run.auth
                /\ run.waits = 1
                /\ run.lookups >= 1
                /\ run.lookup \in {"404", "error"}
          /\ run.hs = "error" => run.creates = 0
    /\ oRun.pc \in {"userinfo", "token", "handshake", "wait", "verifyEmail", "verifyName"}
          => oRun.creates = 0

\* C34 witness: a run whose handshake succeeded and whose lookups did not find
\* the principal created it explicitly, once, and returned it as discovered.
C34_Witness ==
    /\ oRes.valid
    /\ oRes.run.op = "preDeploy"
    /\ oRes.run.creates = 1
    /\ oRes.run.lookup = "404"
    /\ oRes.kind = "created"
    /\ oRes.discovered

\* The results a pre-deploy run can return: the two that report the principal
\* discovered and the failures.
DiscoveredKinds == {"discovered", "created", "assumed"}
FailedKinds ==
    {"not_configured", "configuration missing", "exception", "no user info", "no username",
     "password_required", "no token", "SMTP not configured", "connection",
     "authentication failed", "send failed", "not discovered"}

\* C35: every pre-deploy run of the three variants, whatever its token,
\* handshake and verification steps answer (exceptions included), goes on
\* until it returns: a run in flight always has a next step, and what it
\* returns is one of the two terminal results, Discovered (success and
\* discovered both true) or DiscoveryFailed (both false).
C35_TwoTerminalResults ==
    /\ oRun.op \in PreDeployOps => ENABLED NextOnboard
    /\ (oRes.valid /\ oRes.run.op \in PreDeployOps) =>
          /\ oRes.success = oRes.discovered
          /\ oRes.kind \in DiscoveredKinds \cup FailedKinds
          /\ oRes.success <=> oRes.kind \in DiscoveredKinds

\* C35 witness: a token-exchange run whose mail was accepted and whose lookup
\* did not find the principal returned success and discovered, the directory
\* not holding the identity.
C35_Witness ==
    /\ oRes.valid
    /\ oRes.run.op = "preDeployExchange"
    /\ oRes.run.lookup = "404"
    /\ oRes.run.user \notin mailboxes
    /\ oRes.success /\ oRes.discovered

====
